---- MODULE Spec2Model ----
(***************************************************************************)
(* git-bisect-tool: the bisection orchestrator (BisectRunner), its         *)
(* persistent state (BisectState / BisectStep) and the part of git bisect  *)
(* it drives, over a linear history of commits 0..N.                       *)
(***************************************************************************)
EXTENDS Integers, Sequences, FiniteSets, TLC

VARIABLES
    pc,            \* position of the operation in progress
    runner,        \* the BisectRunner's own fields
    state,         \* runner.state: the BisectState in memory
    resume_state,  \* the resume_state argument as it was handed to __init__
    file,          \* content of the state file
    fs,            \* the files the run depends on and creates
    git,           \* the search session of the working directory
    cmds,          \* git commands issued by the orchestrator, in order
    invoked,       \* commits the test script was invoked on, in order
    verdict,       \* what run_bisect returned
    ret,           \* what the operation returned: <<>> until it returns
    loaded,        \* what BisectState.load returned
    proc,          \* how the last subprocess of run_test ended
    exc,           \* the exception in flight or handled: "none" if none
    valid          \* what the calls of validate returned, in order

vars == <<pc, runner, state, resume_state, file, fs, git, cmds, invoked, verdict, ret, loaded,
          proc, exc, valid>>

----------------------------------------------------------------------------
(* Bounds *)

\* direct calls of validate on one runner
MaxValidate == 2

\* commits of the history are 0..N, oldest first
N == 3
\* lengths of step histories handed to save/load
MaxSteps == 2
\* steps of a history a run is resumed from
MaxHist == 2
\* calls of run_test in one behaviour
MaxRunTests == 1
\* signal numbers a killed test script reports as a negative return code
MaxSignal == 2

(* Program constants *)

SkipCode == 125
ErrorCode == 128

----------------------------------------------------------------------------
(* Identifiers: a full hash, an unresolved reference, or None *)

Hash(p) == [kind |-> "hash", pos |-> p]
Ref(p) == [kind |-> "ref", pos |-> p]
None == [kind |-> "none", pos |-> 0]

NoPath == "None"
RepoPath == "/repo"
TempDir == "/tmp/git-bisect-x"
WorktreePath == "/tmp/git-bisect-x/worktree"

Results == {"good", "bad", "skip", "error"}
Statuses == {"in_progress", "completed", "aborted"}
Shapes == {"BisectStep", "dict"}

\* Git.get_commit_hash: rev-parse of a reference gives the full hash
get_commit_hash(ref) == Hash(ref.pos)

----------------------------------------------------------------------------
(* BisectStep and BisectState *)

BisectStep(commit, result, exit_code, timestamp, duration_seconds) ==
    [shape |-> "BisectStep", commit |-> commit, result |-> result,
     exit_code |-> exit_code, timestamp |-> timestamp,
     duration_seconds |-> duration_seconds]

\* the same step as a key/value dict
DictStep(commit, result, exit_code, timestamp, duration_seconds) ==
    [BisectStep(commit, result, exit_code, timestamp, duration_seconds)
        EXCEPT !.shape = "dict"]

\* dataclasses.asdict of a step
asdict(s) == [s EXCEPT !.shape = "dict"]

\* BisectStep(**s) of a dict
FromDict(s) ==
    BisectStep(s.commit, s.result, s.exit_code, s.timestamp, s.duration_seconds)

BisectState(repo_path, branch, good_commit, bad_commit, test_script, started_at) ==
    [repo_path |-> repo_path, branch |-> branch, good_commit |-> good_commit,
     bad_commit |-> bad_commit, test_script |-> test_script,
     worktree_path |-> NoPath, started_at |-> started_at, steps |-> <<>>,
     current_commit |-> None, found_bad_commit |-> None,
     status |-> "in_progress"]

Absent == [kind |-> "absent"]
Truncated == [kind |-> "truncated"]
Json(data) == [kind |-> "json", data |-> data]

\* BisectState.save: the document json.dump writes
SaveSteps(steps) ==
    [i \in 1..Len(steps) |->
        IF steps[i].shape = "BisectStep" THEN asdict(steps[i]) ELSE steps[i]]

SaveDoc(s) == [s EXCEPT !.steps = SaveSteps(s.steps)]

\* a loader that keeps each step in the shape the document holds
LoadStepsAsStored(steps) == steps

\* BisectState.load of a document
LoadSteps(steps) ==
    [i \in 1..Len(steps) |->
        IF steps[i].shape = "dict" THEN FromDict(steps[i]) ELSE steps[i]]

LoadDoc(data) ==
    [BisectState(data.repo_path, data.branch, data.good_commit,
                 data.bad_commit, data.test_script, "")
        EXCEPT !.worktree_path = data.worktree_path,
               !.started_at = data.started_at,
               !.steps = LoadSteps(data.steps),
               !.current_commit = data.current_commit,
               !.found_bad_commit = data.found_bad_commit,
               !.status = data.status]

\* BisectState.add_step
add_step(s, step) == [s EXCEPT !.steps = Append(s.steps, step)]

\* BisectRunner.save_state: the file after the call
save_state(r, s, f) == IF r.state_file THEN Json(SaveDoc(s)) ELSE f

----------------------------------------------------------------------------
(* The search tool: git bisect over the linear history 0..N *)

Abs(x) == IF x < 0 THEN 0 - x ELSE x

\* a line of the session transcript: whether it holds the phrase
\* 'is the first bad commit', and the 40-hex identifier it carries
LogLine(marker, hash) == [marker |-> marker, hash |-> hash]

\* how the tool writes its conclusion into the transcript
LogFormats == {"marker", "comment"}

VerdictLine(c, fmt) == LogLine(fmt = "marker", Hash(c))

GitIdle(head) ==
    [open |-> FALSE, cwd |-> NoPath, lo |-> 0, hi |-> 0, skipped |-> {},
     head |-> head, orig_head |-> head, status |-> "idle", log |-> <<>>]

Mid(g) == g.lo + (g.hi - g.lo) \div 2

Cands(g) == {c \in (g.lo + 1)..(g.hi - 1) : c \notin g.skipped}

\* the commit the tool checks out next: the untested one nearest the middle
Candidate(g) ==
    CHOOSE c \in Cands(g) :
        \A d \in Cands(g) :
            \/ Abs(c - Mid(g)) < Abs(d - Mid(g))
            \/ Abs(c - Mid(g)) = Abs(d - Mid(g)) /\ c <= d

\* the tool's step after a judgement: conclude, give up or check out the next
BisectNext(g, fmt) ==
    IF g.hi - g.lo <= 1
    THEN [g EXCEPT !.status = "found",
                   !.log = Append(@, VerdictLine(g.hi, fmt))]
    ELSE IF Cands(g) = {}
    THEN [g EXCEPT !.status = "only_skipped"]
    ELSE [g EXCEPT !.status = "searching", !.head = Candidate(g)]

\* a tool that forgets its good bound whenever a commit is marked bad
GitMarkForgetful(g, term, c, fmt) ==
    IF (term = "good" /\ c >= g.hi) \/ (term = "bad" /\ c <= g.lo)
    THEN [g EXCEPT !.status = "failed"]
    ELSE BisectNext(
            [g EXCEPT !.lo = IF term = "good" /\ c > @ THEN c
                             ELSE IF term = "bad" THEN 0 ELSE @,
                      !.hi = IF term = "bad" THEN c ELSE @,
                      !.skipped = IF term = "skip" THEN @ \cup {c} ELSE @,
                      !.log = Append(@, LogLine(FALSE, Hash(c)))],
            fmt)

\* git bisect good|bad|skip <c>
GitMark(g, term, c, fmt) ==
    IF (term = "good" /\ c >= g.hi) \/ (term = "bad" /\ c <= g.lo)
    THEN [g EXCEPT !.status = "failed"]
    ELSE BisectNext(
            [g EXCEPT !.lo = IF term = "good" /\ c > @ THEN c ELSE @,
                      !.hi = IF term = "bad" THEN c ELSE @,
                      !.skipped = IF term = "skip" THEN @ \cup {c} ELSE @,
                      !.log = Append(@, LogLine(FALSE, Hash(c)))],
            fmt)

\* git bisect start <bad> <good> in cwd
GitStart(g, bad, good, cwd, fmt) ==
    BisectNext(
        [g EXCEPT !.open = TRUE, !.cwd = cwd, !.lo = good, !.hi = bad,
                  !.skipped = {}, !.log = <<LogLine(FALSE, Hash(bad))>>],
        fmt)

\* git bisect reset: the session is closed and the original checkout restored
GitReset(g) ==
    [g EXCEPT !.open = FALSE, !.cwd = NoPath, !.status = "idle",
              !.head = g.orig_head, !.skipped = {}, !.log = <<>>]

\* the judgement git bisect run derives from the wrapper's exit code
RunTerm(e) == IF e = 0 THEN "good" ELSE IF e = SkipCode THEN "skip" ELSE "bad"

\* one round of git bisect run: the wrapper has exited with e at HEAD
GitRunStep(g, e, fmt) ==
    IF e < 0 \/ e >= ErrorCode THEN g ELSE GitMark(g, RunTerm(e), g.head, fmt)

\* whether git bisect run goes on to another round
RunContinues(g, e, fmt) ==
    ~(e < 0 \/ e >= ErrorCode) /\ GitRunStep(g, e, fmt).status = "searching"

----------------------------------------------------------------------------
(* Histories a resumed state can carry *)

\* the exit code run_test maps to each result
CodeOf(result) ==
    CASE result = "good" -> 0
      [] result = "bad" -> 1
      [] result = "skip" -> SkipCode
      [] OTHER -> ErrorCode

HistStep(shape, c, result) ==
    [BisectStep(Hash(c), result, CodeOf(result), "t", 1) EXCEPT !.shape = shape]

\* the session after the judgement of its candidate; an error ends git
\* bisect run and leaves the session where it was
AfterResult(g, result) ==
    IF result = "error" THEN g
    ELSE GitMark(g, IF result = "skip" THEN "skip" ELSE result, g.head, "marker")

\* every history of at most k steps a session leaves behind, from g on:
\* each step judges the candidate the tool had checked out
RECURSIVE Histories(_, _)
Histories(g, k) ==
    {<<>>} \cup
    IF k = 0 \/ g.status # "searching" THEN {}
    ELSE UNION { { <<HistStep(shape, g.head, result)>> \o h :
                     h \in Histories(AfterResult(g, result), k - 1) } :
                 <<shape, result>> \in Shapes \X Results }

----------------------------------------------------------------------------
(* BisectRunner: construction *)

NoState == [status |-> "none"]

NoProc == [outcome |-> "none", returncode |-> 0]

TestScript == "/test.sh"
Branch == "main"

\* BisectRunner.__init__: the runner's fields
BisectRunner(good_commit, bad_commit, use_worktree, state_file, dry_run, resume) ==
    [resuming |-> resume # NoState,
     good_commit |-> IF resume # NoState THEN good_commit
                     ELSE get_commit_hash(good_commit),
     bad_commit |-> IF resume # NoState THEN bad_commit
                    ELSE get_commit_hash(bad_commit),
     use_worktree |-> use_worktree, state_file |-> state_file,
     dry_run |-> dry_run, repo_path |-> RepoPath,
     worktree_path |-> NoPath, temp_dir |-> NoPath]

\* BisectRunner.__init__: the state the runner starts with
InitialState(r, resume) ==
    IF resume # NoState THEN [resume EXCEPT !.status = "in_progress"]
    ELSE BisectState(RepoPath, Branch, r.good_commit, r.bad_commit,
                     TestScript, "t0")

Cmd(cmd, a, b, cwd) == [cmd |-> cmd, a |-> a, b |-> b, cwd |-> cwd]

\* the rev-parse calls of __init__
InitCmds(good_commit, bad_commit, resume) ==
    IF resume # NoState THEN <<>>
    ELSE <<Cmd("rev_parse", good_commit, None, RepoPath),
           Cmd("rev_parse", bad_commit, None, RepoPath)>>

\* states a previous run of the bracket (g, N) left in its state file
SavedStates(g) ==
    { [BisectState(RepoPath, Branch, Hash(g), Hash(N), TestScript, "t0")
          EXCEPT !.steps = h, !.status = st[1], !.found_bad_commit = st[2]] :
      h \in Histories(GitStart(GitIdle(N), N, g, RepoPath, "marker"), MaxHist),
      st \in {<<"in_progress", None>>, <<"aborted", None>>,
              <<"completed", Hash(N)>>} }

\* what a caller passes as good/bad beside a resumed state: the state's own
\* identifiers, or references naming the same commits
ResumeArgs(s) == {<<s.good_commit, s.bad_commit>>,
                  <<Ref(s.good_commit.pos), Ref(s.bad_commit.pos)>>}

ScriptKinds == {"exec", "noexec", "missing"}

\* what repo_path names: a repository, a directory without .git, nothing
RepoKinds == {"ok", "notgit", "missing"}

\* passes_upto is what the test script does: -1 for a script that may exit
\* with any code, k for one that exits 0 on the commits up to k and 1 on
\* the later ones
FilesIn(repo, script) ==
    [repo |-> repo, script |-> script, wrapper |-> FALSE, worktree |-> FALSE,
     temp_dir |-> FALSE, passes_upto |-> 0 - 1]

Files(script) == FilesIn("ok", script)

ConstructedIn(good_commit, bad_commit, use_worktree, state_file, dry_run, resume, files) ==
    /\ pc = IF resume = NoState /\ files.repo # "ok" THEN "raised" ELSE "created"
    /\ runner = BisectRunner(good_commit, bad_commit, use_worktree, state_file,
                             dry_run, resume)
    /\ state = InitialState(runner, resume)
    /\ resume_state = resume
    /\ file = IF resume # NoState /\ state_file THEN Json(SaveDoc(resume))
              ELSE Absent
    /\ fs = files
    /\ git = GitIdle(N)
    /\ cmds = IF resume = NoState /\ files.repo # "ok"
              THEN SubSeq(InitCmds(good_commit, bad_commit, resume), 1, 1)
              ELSE InitCmds(good_commit, bad_commit, resume)
    /\ invoked = <<>>
    /\ verdict = None
    /\ ret = <<>>
    /\ loaded = NoState
    /\ proc = NoProc
    /\ exc = IF resume = NoState /\ files.repo # "ok" THEN "GitError" ELSE "none"
    /\ valid = <<>>

Constructed(good_commit, bad_commit, use_worktree, state_file, dry_run, resume, script) ==
    ConstructedIn(good_commit, bad_commit, use_worktree, state_file, dry_run,
                  resume, Files(script))

Init ==
    \E use_worktree \in BOOLEAN, state_file \in BOOLEAN :
        \/ \E g \in 0..(N + 1), dry_run \in BOOLEAN, script \in ScriptKinds :
              Constructed(Ref(g), Ref(N), use_worktree, state_file, dry_run,
                          NoState, script)
        \/ \E g \in 0..(N - 1), dry_run \in BOOLEAN :
              \E s \in SavedStates(g) :
                  \E a \in ResumeArgs(s) :
                      Constructed(a[1], a[2], use_worktree, state_file, dry_run,
                                  s, "exec")
        \/ \E g \in 0..(N - 1), repo \in RepoKinds \ {"ok"} :
              \/ ConstructedIn(Ref(g), Ref(N), use_worktree, state_file, FALSE,
                               NoState, FilesIn(repo, "exec"))
              \/ \E s \in SavedStates(g) :
                    ConstructedIn(s.good_commit, s.bad_commit, use_worktree,
                                  state_file, FALSE, s, FilesIn(repo, "exec"))

----------------------------------------------------------------------------
(* BisectRunner.run *)

Pos(id) == id.pos

\* Git.is_ancestor on the linear history
is_ancestor(a, b) == Pos(a) <= Pos(b)

\* Git.count_commits_between: rev-list --count good..bad
count_commits_between(good, bad) ==
    IF Pos(good) < Pos(bad) THEN Pos(bad) - Pos(good) ELSE 0

\* the test script's permission bits after validate
ChmodIfNeeded(f) ==
    IF f.repo = "ok" /\ f.script = "noexec" THEN [f EXCEPT !.script = "exec"]
    ELSE f

\* a validate that accepts every pair with good an ancestor of bad
ValidatesAncestor(r, f) ==
    /\ f.repo # "missing"
    /\ f.repo = "ok"
    /\ f.script # "missing"
    /\ is_ancestor(r.good_commit, r.bad_commit)

\* validate: the git commands it issues, both read-only
ValidateCmds(r, f) ==
    IF f.repo # "ok" \/ f.script = "missing" THEN <<>>
    ELSE <<Cmd("merge_base_is_ancestor", r.good_commit, r.bad_commit, RepoPath)>>
         \o (IF is_ancestor(r.good_commit, r.bad_commit)
             THEN <<Cmd("rev_list_count", r.good_commit, r.bad_commit, RepoPath)>>
             ELSE <<>>)

\* BisectRunner.validate: its result
Validates(r, f) ==
    /\ f.repo # "missing"
    /\ f.repo = "ok"
    /\ f.script # "missing"
    /\ is_ancestor(r.good_commit, r.bad_commit)
    /\ count_commits_between(r.good_commit, r.bad_commit) # 0

WorkDir(r) == IF r.use_worktree THEN r.worktree_path ELSE r.repo_path

\* run(): print_banner and print_config; get_commit_info raises GitError
\* when git cannot run in repo_path, and run() does not catch it
print_config ==
    /\ pc = "created"
    /\ IF fs.repo = "ok"
       THEN /\ cmds' = cmds \o
                  <<Cmd("get_commit_info", runner.good_commit, None, RepoPath),
                    Cmd("get_commit_info", runner.bad_commit, None, RepoPath)>>
            /\ pc' = "estimate"
            /\ exc' = exc
       ELSE /\ cmds' = Append(cmds, Cmd("get_commit_info", runner.good_commit,
                                        None, RepoPath))
            /\ pc' = "raised"
            /\ exc' = "GitError"
    /\ UNCHANGED <<runner, state, resume_state, file, fs, git, invoked,
                   verdict, ret, loaded, proc, valid>>

\* run(): print_estimate, a dry session opened and closed in the repository
print_estimate ==
    /\ pc = "estimate"
    /\ cmds' = cmds \o
          <<Cmd("bisect_start_no_checkout", runner.bad_commit,
                runner.good_commit, RepoPath),
            Cmd("bisect_reset", None, None, RepoPath)>>
    /\ pc' = "validate"
    /\ UNCHANGED <<runner, state, resume_state, file, fs, git, invoked,
                   verdict, ret, loaded, proc, exc, valid>>

\* a run() without the dry-run return
validate_without_dry_run ==
    /\ pc = "validate"
    /\ fs' = ChmodIfNeeded(fs)
    /\ IF ~Validates(runner, fs)
       THEN pc' = "done" /\ ret' = <<2>>
       ELSE /\ pc' = IF runner.use_worktree THEN "setup" ELSE "start"
            /\ ret' = ret
    /\ valid' = Append(valid, Validates(runner, fs))
    /\ cmds' = cmds \o ValidateCmds(runner, fs)
    /\ UNCHANGED <<runner, state, resume_state, file, git, invoked,
                   verdict, loaded, proc, exc>>

\* run(): validate, and the return of an invalid or a dry run
validate ==
    /\ pc = "validate"
    /\ fs' = ChmodIfNeeded(fs)
    /\ IF ~Validates(runner, fs)
       THEN pc' = "done" /\ ret' = <<2>>
       ELSE IF runner.dry_run
       THEN pc' = "done" /\ ret' = <<0>>
       ELSE /\ pc' = IF runner.use_worktree THEN "setup" ELSE "start"
            /\ ret' = ret
    /\ valid' = Append(valid, Validates(runner, fs))
    /\ cmds' = cmds \o ValidateCmds(runner, fs)
    /\ UNCHANGED <<runner, state, resume_state, file, git, invoked,
                   verdict, loaded, proc, exc>>

\* setup_worktree: the runner and the files after mkdtemp and worktree add
SetupRunner(r) ==
    [r EXCEPT !.temp_dir = TempDir, !.worktree_path = WorktreePath]

SetupFs(f, added) == [f EXCEPT !.temp_dir = TRUE, !.worktree = added]

\* BisectRunner.setup_worktree
setup_worktree ==
    /\ pc = "setup"
    /\ runner' = SetupRunner(runner)
    /\ fs' = SetupFs(fs, TRUE)
    /\ cmds' = Append(cmds, Cmd("worktree_add", runner.bad_commit, None, RepoPath))
    /\ state' = [state EXCEPT !.worktree_path = WorktreePath]
    /\ pc' = "start"
    /\ UNCHANGED <<resume_state, file, git, invoked, verdict, ret, loaded,
                   proc, exc, valid>>

\* setup_worktree when git worktree add fails: create_worktree raises
\* GitError after the temporary directory was made
setup_worktree_fails ==
    /\ pc = "setup"
    /\ runner' = SetupRunner(runner)
    /\ fs' = SetupFs(fs, FALSE)
    /\ cmds' = Append(cmds, Cmd("worktree_add", runner.bad_commit, None, RepoPath))
    /\ exc' = "GitError"
    /\ pc' = "except"
    /\ UNCHANGED <<state, resume_state, file, git, invoked, verdict, ret,
                   loaded, proc, valid>>

\* a KeyboardInterrupt arrives in the try block of run(): before
\* run_bisect has entered its own try block, and after run_bisect has
\* returned, it goes straight to the handler of run(); in between it passes
\* through the finally block of run_bisect
interrupt ==
    /\ pc \in {"setup", "start", "replay", "run", "loop", "log", "report",
              "print_result"}
    /\ exc' = "KeyboardInterrupt"
    /\ pc' = IF pc \in {"setup", "start", "report", "print_result"}
             THEN "except" ELSE "finally"
    /\ UNCHANGED <<runner, state, resume_state, file, fs, git, cmds, invoked,
                   verdict, ret, loaded, proc, valid>>

----------------------------------------------------------------------------
(* BisectRunner.run_bisect *)

\* _create_wrapper_script: where the wrapper is written
WrapperPath(r) ==
    IF r.temp_dir # NoPath THEN "/tmp/git-bisect-x/bisect_wrapper.sh"
    ELSE "/tmp/bisect_wrapper.sh"

\* the commit and the result of a step of either shape
StepCommit(step) ==
    IF step.shape = "BisectStep" THEN step.commit ELSE step.commit

StepResult(step) ==
    IF step.shape = "BisectStep" THEN step.result ELSE step.result

\* a replay that issues the assertions of the history last step first
RECURSIVE ReplayNewestFirst(_, _)
ReplayNewestFirst(steps, work_dir) ==
    IF steps = <<>> THEN <<>>
    ELSE ReplayNewestFirst(Tail(steps), work_dir)
         \o (IF StepResult(Head(steps)) = "good"
             THEN <<Cmd("bisect_good", StepCommit(Head(steps)), None, work_dir)>>
             ELSE IF StepResult(Head(steps)) = "bad"
             THEN <<Cmd("bisect_bad", StepCommit(Head(steps)), None, work_dir)>>
             ELSE <<>>)

\* replay_bisect_trace: the assertions it issues, in order
RECURSIVE ReplayCmds(_, _)
ReplayCmds(steps, work_dir) ==
    IF steps = <<>> THEN <<>>
    ELSE (IF StepResult(Head(steps)) = "good"
          THEN <<Cmd("bisect_good", StepCommit(Head(steps)), None, work_dir)>>
          ELSE IF StepResult(Head(steps)) = "bad"
          THEN <<Cmd("bisect_bad", StepCommit(Head(steps)), None, work_dir)>>
          ELSE <<>>)
         \o ReplayCmds(Tail(steps), work_dir)

\* the session after the tool has taken the assertions cs
RECURSIVE GitApply(_, _, _)
GitApply(g, cs, fmt) ==
    IF cs = <<>> THEN g
    ELSE GitApply(
            GitMark(g, IF Head(cs).cmd = "bisect_good" THEN "good" ELSE "bad",
                    Pos(Head(cs).a), fmt),
            Tail(cs), fmt)

\* run_bisect: the wrapper script is written and the session started
bisect_start ==
    /\ pc = "start"
    /\ fs' = [fs EXCEPT !.wrapper = TRUE]
    /\ cmds' = Append(cmds, Cmd("bisect_start", runner.bad_commit,
                                runner.good_commit, WorkDir(runner)))
    /\ \E fmt \in LogFormats :
          git' = GitStart(git, Pos(runner.bad_commit), Pos(runner.good_commit),
                          WorkDir(runner), fmt)
    /\ pc' = IF runner.resuming THEN "replay" ELSE "run"
    /\ UNCHANGED <<runner, state, resume_state, file, invoked, verdict, ret,
                   loaded, proc, exc, valid>>

\* run_bisect when git bisect start fails: bisect_start raises GitError with
\* the wrapper script written and no session opened
bisect_start_fails ==
    /\ pc = "start"
    /\ fs' = [fs EXCEPT !.wrapper = TRUE]
    /\ cmds' = Append(cmds, Cmd("bisect_start", runner.bad_commit,
                                runner.good_commit, WorkDir(runner)))
    /\ exc' = "GitError"
    /\ pc' = "finally"
    /\ UNCHANGED <<runner, state, resume_state, file, git, invoked, verdict,
                   ret, loaded, proc, valid>>

\* run_bisect: replay_bisect_trace of a resumed run
replay_bisect_trace ==
    /\ pc = "replay"
    /\ cmds' = cmds \o ReplayCmds(state.steps, WorkDir(runner))
    /\ \E fmt \in LogFormats :
          git' = GitApply(git, ReplayCmds(state.steps, WorkDir(runner)), fmt)
    /\ pc' = "run"
    /\ UNCHANGED <<runner, state, resume_state, file, fs, invoked, verdict,
                   ret, loaded, proc, exc, valid>>

\* replay_bisect_trace when the tool rejects an assertion: the assertions
\* before it have taken effect and bisect_good / bisect_bad raises GitError
replay_fails ==
    /\ pc = "replay"
    /\ LET rc == ReplayCmds(state.steps, WorkDir(runner))
       IN  \E k \in 1..Len(rc), fmt \in LogFormats :
              /\ cmds' = cmds \o SubSeq(rc, 1, k)
              /\ git' = GitApply(git, SubSeq(rc, 1, k - 1), fmt)
    /\ exc' = "GitError"
    /\ pc' = "finally"
    /\ UNCHANGED <<runner, state, resume_state, file, fs, invoked, verdict,
                   ret, loaded, proc, valid>>

\* run_bisect: git bisect run <wrapper> is launched
bisect_run ==
    /\ pc = "run"
    /\ cmds' = Append(cmds, Cmd("bisect_run", None, None, WorkDir(runner)))
    /\ pc' = "loop"
    /\ UNCHANGED <<runner, state, resume_state, file, fs, git, invoked,
                   verdict, ret, loaded, proc, exc, valid>>

\* exit codes of the test script
TestExits == {0, 1, SkipCode, ErrorCode}

\* the exit codes the test script can give on commit c
ScriptExits(f, c) ==
    IF f.passes_upto < 0 THEN TestExits
    ELSE IF c <= f.passes_upto THEN {0} ELSE {1}

\* the wrapper: COMMIT=$(git rev-parse HEAD), then the test script is given
\* "$COMMIT" and the working directory of the run
WrapperArgs(r, g) == [commit |-> Hash(g.head), work_dir |-> WorkDir(r)]

\* a wrapper that runs the test script and reports only success or failure
WrapperExitFlag(e) == IF e = 0 THEN 0 ELSE 1

\* the wrapper execs the test script: its exit status is the script's
WrapperExit(e) == e

\* one round of git bisect run: the wrapper execs the test script on HEAD
\* and the tool takes its exit code as the judgement
wrapper_round ==
    /\ pc = "loop"
    /\ \E e \in ScriptExits(fs, git.head), fmt \in LogFormats :
          /\ invoked' = Append(invoked, WrapperArgs(runner, git).commit)
          /\ proc' = [outcome |-> "exited", returncode |-> e,
                      commit |-> WrapperArgs(runner, git).commit,
                      work_dir |-> WrapperArgs(runner, git).work_dir]
          /\ git' = GitRunStep(git, WrapperExit(e), fmt)
          /\ pc' = IF RunContinues(git, WrapperExit(e), fmt) THEN "loop"
                   ELSE "log"
    /\ UNCHANGED <<runner, state, resume_state, file, fs, cmds, verdict, ret,
                   loaded, exc, valid>>


\* run_bisect: the first line of the transcript that holds the marker and
\* carries an identifier
MarkerLines(log) ==
    {i \in 1..Len(log) : log[i].marker /\ log[i].hash # None}

\* a parser that looks at the first line with the marker only, whether or not
\* it carries an identifier
ParseLogFirstMarker(log) ==
    LET M == {i \in 1..Len(log) : log[i].marker}
    IN  IF M = {} THEN None
        ELSE log[CHOOSE i \in M : \A j \in M : i <= j].hash

ParseLog(log) ==
    IF MarkerLines(log) = {} THEN None
    ELSE log[CHOOSE i \in MarkerLines(log) :
                 \A j \in MarkerLines(log) : i <= j].hash

\* run_bisect: what it returns for a transcript; without a marker line it
\* falls back to the commit checked out, or None if rev-parse raises
Fallback(g, head_ok) == IF head_ok THEN Hash(g.head) ELSE None

BadCommit(g, head_ok) ==
    IF ParseLog(g.log) # None THEN ParseLog(g.log) ELSE Fallback(g, head_ok)

\* run_bisect: git bisect log is read and the verdict parsed from it
parse_verdict ==
    /\ pc = "log"
    /\ \E head_ok \in BOOLEAN :
          /\ verdict' = BadCommit(git, head_ok)
          /\ cmds' = cmds \o <<Cmd("bisect_log", None, None, WorkDir(runner))>>
                \o (IF ParseLog(git.log) = None
                    THEN <<Cmd("rev_parse_head", None, None, WorkDir(runner))>>
                    ELSE <<>>)
    /\ pc' = "finally"
    /\ UNCHANGED <<runner, state, resume_state, file, fs, git, invoked, ret,
                   loaded, proc, exc, valid>>

\* run_bisect: its finally block
run_bisect_finally ==
    /\ pc = "finally"
    /\ fs' = [fs EXCEPT !.wrapper = FALSE]
    /\ cmds' = Append(cmds, Cmd("bisect_reset", None, None, WorkDir(runner)))
    /\ git' = GitReset(git)
    /\ pc' = IF exc = "none" THEN "report" ELSE "except"
    /\ UNCHANGED <<runner, state, resume_state, file, invoked, verdict, ret,
                   loaded, proc, exc, valid>>

\* a report that sets the status and leaves found_bad_commit alone
ReportedStatus(s, bad_commit) ==
    IF bad_commit # None THEN [s EXCEPT !.status = "completed"]
    ELSE [s EXCEPT !.status = "aborted"]

\* run(): the state after run_bisect returned bad_commit
Reported(s, bad_commit) ==
    IF bad_commit # None
    THEN [s EXCEPT !.found_bad_commit = bad_commit, !.status = "completed"]
    ELSE [s EXCEPT !.status = "aborted"]

\* run(): the verdict is recorded and the state saved; without a verdict
\* run() returns 1
report ==
    /\ pc = "report"
    /\ state' = Reported(state, verdict)
    /\ file' = save_state(runner, state', file)
    /\ IF verdict # None THEN pc' = "print_result" /\ ret' = ret
       ELSE pc' = "cleanup" /\ ret' = <<1>>
    /\ UNCHANGED <<runner, resume_state, fs, git, cmds, invoked, verdict,
                   loaded, proc, exc, valid>>

\* run(): print_result of the verdict, then return 0
print_result ==
    /\ pc = "print_result"
    /\ cmds' = Append(cmds, Cmd("get_commit_info", verdict, None, RepoPath))
    /\ ret' = <<0>>
    /\ pc' = "cleanup"
    /\ UNCHANGED <<runner, state, resume_state, file, fs, git, invoked,
                   verdict, loaded, proc, exc, valid>>

\* a handler that leaves the status as it is
AbortedInName(s) == s

\* run(): what the exception handlers make of the state
Aborted(s) == [s EXCEPT !.status = "aborted"]

\* run(): the handlers of KeyboardInterrupt and of Exception
handle_exception ==
    /\ pc = "except"
    /\ state' = Aborted(state)
    /\ file' = save_state(runner, state', file)
    /\ ret' = <<1>>
    /\ pc' = "cleanup"
    /\ UNCHANGED <<runner, resume_state, fs, git, cmds, invoked, verdict,
                   loaded, proc, exc, valid>>

\* cleanup_worktree: whether it asks the tool to remove the worktree
RemovesWorktree(r, f) == r.worktree_path # NoPath /\ f.worktree

\* cleanup_worktree: the git commands it issues
CleanupCmds(r, f) ==
    IF RemovesWorktree(r, f)
    THEN <<Cmd("worktree_remove", None, None, RepoPath)>> ELSE <<>>

\* a cleanup that leaves the temporary directory to the tool
CleanupFsByTool(r, f, removed) ==
    IF RemovesWorktree(r, f) /\ removed THEN [f EXCEPT !.worktree = FALSE]
    ELSE f

\* a remove_worktree that checks the tool's exit status
CleanupExcChecked(r, f, removed) ==
    IF RemovesWorktree(r, f) /\ ~removed THEN "GitError" ELSE "none"

\* cleanup_worktree: the exception it raises; remove_worktree runs the
\* tool with check=False and rmtree ignores errors, so there is none
CleanupExc(r, f, removed) == "none"

\* cleanup_worktree: the files after it; removed is whether the tool's
\* worktree removal succeeded (it is run unchecked), and rmtree of the
\* temporary directory takes the worktree inside it along
CleanupFs(r, f, removed) ==
    LET g == IF RemovesWorktree(r, f) /\ removed
             THEN [f EXCEPT !.worktree = FALSE] ELSE f
    IN  IF r.temp_dir # NoPath /\ g.temp_dir
        THEN [g EXCEPT !.worktree = FALSE, !.temp_dir = FALSE]
        ELSE g

\* run(): its finally block, cleanup_worktree when a worktree is used
cleanup ==
    /\ pc = "cleanup"
    /\ IF runner.use_worktree
       THEN /\ cmds' = cmds \o CleanupCmds(runner, fs)
            /\ \E removed \in BOOLEAN :
                  /\ fs' = CleanupFs(runner, fs, removed)
                  /\ IF CleanupExc(runner, fs, removed) = "none"
                     THEN pc' = "done" /\ UNCHANGED <<exc, ret>>
                     ELSE /\ pc' = "raised"
                          /\ exc' = CleanupExc(runner, fs, removed)
                          /\ ret' = <<>>
       ELSE pc' = "done" /\ UNCHANGED <<cmds, fs, exc, ret>>
    /\ UNCHANGED <<runner, state, resume_state, file, git, invoked, verdict,
                   loaded, proc, valid>>

Next ==
    \/ print_config
    \/ print_estimate
    \/ validate
    \/ setup_worktree
    \/ setup_worktree_fails
    \/ interrupt
    \/ bisect_start
    \/ bisect_start_fails
    \/ replay_bisect_trace
    \/ replay_fails
    \/ bisect_run
    \/ wrapper_round
    \/ parse_verdict
    \/ run_bisect_finally
    \/ report
    \/ print_result
    \/ handle_exception
    \/ cleanup

Spec == Init /\ [][Next]_vars

----------------------------------------------------------------------------
(* Properties of run() *)

\* the steps this run has recorded, beyond those of the resumed state
ResumedSteps == IF runner.resuming THEN resume_state.steps ELSE <<>>

NewSteps == SubSeq(state.steps, Len(ResumedSteps) + 1, Len(state.steps))

\* C1: every invocation of the test script that has returned left exactly
\* one step for its candidate in state.steps and, with a state file, in the
\* file, before the next candidate is tested; so the steps recorded in this
\* run are as many as the invocations.
C1_StepPerInvocation ==
    /\ Len(NewSteps) = Len(invoked)
    /\ \A i \in 1..Len(invoked) : StepCommit(NewSteps[i]) = invoked[i]
    /\ (runner.state_file /\ invoked # <<>>) =>
          file = Json(SaveDoc(state))

\* C2: run_bisect returns a verdict only if the transcript holds a marker
\* line carrying an identifier, and then that identifier; without such a
\* line it returns None.
C2_VerdictOnlyFromTranscript ==
    pc = "finally" =>
        /\ verdict # None =>
              \E i \in MarkerLines(git.log) : git.log[i].hash = verdict
        /\ MarkerLines(git.log) = {} => verdict = None

\* the session the interrupted run had reached when its last step was
\* recorded
RECURSIVE SessionAfter(_, _)
SessionAfter(g, steps) ==
    IF steps = <<>> THEN g
    ELSE SessionAfter(AfterResult(g, StepResult(Head(steps))), Tail(steps))

OriginalSession ==
    SessionAfter(GitStart(GitIdle(N), Pos(resume_state.bad_commit),
                          Pos(resume_state.good_commit), RepoPath, "marker"),
                 resume_state.steps)

\* C3: a run resumed from the state a run killed in mid-search saved never
\* invokes the test script on a commit of a recorded step, and the first
\* candidate it tests is the one the interrupted search would have selected
\* next.
C3_ResumeSkipsJudged ==
    (/\ runner.resuming
     /\ resume_state.status # "completed"
     /\ OriginalSession.status = "searching"
     /\ \A j \in 1..Len(resume_state.steps) :
           StepResult(resume_state.steps[j]) # "error") =>
        /\ \A i \in 1..Len(invoked) :
              \A j \in 1..Len(resume_state.steps) :
                  invoked[i] # StepCommit(resume_state.steps[j])
        /\ invoked # <<>> => invoked[1] = Hash(OriginalSession.head)

\* the state as __init__ received or created it, before any mutation
Unmutated ==
    IF runner.resuming THEN resume_state ELSE InitialState(runner, NoState)

\* C5: with a state file configured, once the state has been mutated the
\* file equals the state in memory at every point between two operations
\* of the run.
C5_SavedAfterEveryMutation ==
    (runner.state_file /\ state # Unmutated) => file = Json(SaveDoc(state))

IsAssertion(c) == c.cmd \in {"bisect_good", "bisect_bad"}

IsJudged(step) == step.result \in {"good", "bad"}

Issued == SelectSeq(cmds, IsAssertion)

Judged == SelectSeq(ResumedSteps, IsJudged)

CmdIndex(name) == {i \in 1..Len(cmds) : cmds[i].cmd = name}

\* C9: once replay has returned, the good/bad assertions issued are those of
\* the history's good and bad steps, one each, in the history's order and
\* against the working directory; they lie between session start and the
\* search loop, and a run that is not resumed or has no history issues none.
C9_ReplayInOrder ==
    /\ (pc \in {"created", "estimate", "validate", "setup", "start", "replay"}
        \/ CmdIndex("bisect_start") = {}) => Issued = <<>>
    /\ (pc = "run" \/ CmdIndex("bisect_run") # {}) =>
          /\ Len(Issued) = Len(Judged)
          /\ \A i \in 1..Len(Judged) :
                /\ Issued[i].cmd = (IF Judged[i].result = "good"
                                    THEN "bisect_good" ELSE "bisect_bad")
                /\ Issued[i].a = Judged[i].commit
                /\ Issued[i].cwd = WorkDir(runner)
    /\ \A i \in 1..Len(cmds) :
          IsAssertion(cmds[i]) =>
              /\ \E j \in CmdIndex("bisect_start") : j < i
              /\ \A j \in CmdIndex("bisect_run") : i < j

\* a resumed run has replayed a good and a bad step, one of them a dict
C9_Witness ==
    /\ pc = "run"
    /\ Len(Issued) = 2
    /\ Issued[1].cmd # Issued[2].cmd
    /\ \E i \in 1..Len(state.steps) : state.steps[i].shape = "dict"

\* C10: a resumed runner keeps, and starts the session with, exactly the
\* good and bad identifiers stored in the resumed state and resolves no
\* reference; a fresh runner resolves both at construction and never again.
C10_ResumedIdentifiersFromState ==
    /\ runner.resuming =>
          /\ runner.good_commit = resume_state.good_commit
          /\ runner.bad_commit = resume_state.bad_commit
          /\ CmdIndex("rev_parse") = {}
          /\ \A i \in CmdIndex("bisect_start") :
                /\ cmds[i].a = resume_state.bad_commit
                /\ cmds[i].b = resume_state.good_commit
    /\ (~runner.resuming /\ pc # "raised") =>
          Cardinality(CmdIndex("rev_parse")) = 2

----------------------------------------------------------------------------
(* BisectState.save under a kill: the file operations of one save *)

\* steps a caller appends before it saves
SaveStepValues ==
    {BisectStep(Hash(c), r, CodeOf(r), "t", 1) : c \in 0..N, r \in Results}

FreshRunner(state_file) ==
    BisectRunner(Ref(0), Ref(N), FALSE, state_file, FALSE, NoState)

InitSave ==
    /\ pc = "idle"
    /\ runner = FreshRunner(TRUE)
    /\ state = InitialState(runner, NoState)
    /\ resume_state = NoState
    /\ file = Json(SaveDoc(state))
    /\ fs = Files("exec")
    /\ git = GitIdle(N)
    /\ cmds = <<>>
    /\ invoked = <<>>
    /\ verdict = None
    /\ ret = <<>>
    /\ loaded = NoState
    /\ proc = NoProc
    /\ exc = "none"
    /\ valid = <<>>

\* a step is appended to the history; the save that follows has not begun
record_step ==
    /\ pc = "idle"
    /\ Len(state.steps) < MaxSteps
    /\ \E step \in SaveStepValues : state' = add_step(state, step)
    /\ pc' = "open"
    /\ UNCHANGED <<runner, resume_state, file, fs, git, cmds, invoked,
                   verdict, ret, loaded, proc, exc, valid>>

\* save: open(path, 'w') truncates the file
save_open ==
    /\ pc = "open"
    /\ file' = Truncated
    /\ pc' = "dump"
    /\ UNCHANGED <<runner, state, resume_state, fs, git, cmds, invoked,
                   verdict, ret, loaded, proc, exc, valid>>

\* save: json.dump has written the document and the file is closed
save_dump ==
    /\ pc = "dump"
    /\ file' = Json(SaveDoc(state))
    /\ pc' = "idle"
    /\ UNCHANGED <<runner, state, resume_state, fs, git, cmds, invoked,
                   verdict, ret, loaded, proc, exc, valid>>

\* the process is killed
kill ==
    /\ pc \in {"idle", "open", "dump"}
    /\ pc' = "killed"
    /\ UNCHANGED <<runner, state, resume_state, file, fs, git, cmds, invoked,
                   verdict, ret, loaded, proc, exc, valid>>

NextSave == record_step \/ save_open \/ save_dump \/ kill

SpecSave == InitSave /\ [][NextSave]_vars

\* the history before its last step was appended
Front(steps) == SubSeq(steps, 1, Len(steps) - 1)

\* C4: after a kill at any point the state file is a complete document,
\* equal to the previously saved state or to the state being saved.
C4_KillLeavesCompleteFile ==
    pc = "killed" =>
        /\ file.kind = "json"
        /\ \/ file.data = SaveDoc(state)
           \/ /\ state.steps # <<>>
              /\ file.data = SaveDoc([state EXCEPT !.steps = Front(@)])

----------------------------------------------------------------------------
(* BisectState.save and BisectState.load: the round trip *)

CodecStepValues ==
    {[BisectStep(Hash(c), r, CodeOf(r), t, d) EXCEPT !.shape = shape] :
        c \in {0, N}, r \in {"good", "skip"}, t \in {"t1"}, d \in {1, 2},
        shape \in Shapes}

RECURSIVE SeqsUpTo(_, _)
SeqsUpTo(S, k) ==
    IF k = 0 THEN {<<>>}
    ELSE SeqsUpTo(S, k - 1) \cup
         {Append(q, x) : q \in {p \in SeqsUpTo(S, k - 1) : Len(p) = k - 1},
                         x \in S}

CodecStates ==
    {[BisectState(RepoPath, Branch, Hash(0), Hash(N), TestScript, started_at)
         EXCEPT !.worktree_path = worktree_path, !.steps = steps,
                !.current_commit = current_commit,
                !.found_bad_commit = fs_[1], !.status = fs_[2]] :
        started_at \in {"", "t0"}, worktree_path \in {NoPath, WorktreePath},
        steps \in SeqsUpTo(CodecStepValues, MaxSteps),
        current_commit \in {None, Hash(1)},
        fs_ \in {<<None, "in_progress">>, <<None, "aborted">>,
                 <<Hash(N), "completed">>}}

InitCodec ==
    /\ pc = "created"
    /\ runner = FreshRunner(TRUE)
    /\ state \in CodecStates
    /\ resume_state = NoState
    /\ file = Absent
    /\ fs = Files("exec")
    /\ git = GitIdle(N)
    /\ cmds = <<>>
    /\ invoked = <<>>
    /\ verdict = None
    /\ ret = <<>>
    /\ loaded = NoState
    /\ proc = NoProc
    /\ exc = "none"
    /\ valid = <<>>

\* state.save(path)
save ==
    /\ pc = "created"
    /\ file' = Json(SaveDoc(state))
    /\ pc' = "saved"
    /\ UNCHANGED <<runner, state, resume_state, fs, git, cmds, invoked,
                   verdict, ret, loaded, proc, exc, valid>>

\* BisectState.load(path)
load ==
    /\ pc = "saved"
    /\ loaded' = LoadDoc(file.data)
    /\ pc' = "loaded"
    /\ UNCHANGED <<runner, state, resume_state, file, fs, git, cmds, invoked,
                   verdict, ret, proc, exc, valid>>

NextCodec == save \/ load

SpecCodec == InitCodec /\ [][NextCodec]_vars

StateFields ==
    {"repo_path", "branch", "good_commit", "bad_commit", "test_script",
     "worktree_path", "started_at", "current_commit", "found_bad_commit",
     "status"}

StepFields ==
    {"commit", "result", "exit_code", "timestamp", "duration_seconds"}

\* C6: load(save(state)) equals state field by field, with the steps in the
\* same order and with the same values whichever shape they had, and every
\* loaded step is a BisectStep.
C6_RoundTrip ==
    pc = "loaded" =>
        /\ \A f \in StateFields : loaded[f] = state[f]
        /\ Len(loaded.steps) = Len(state.steps)
        /\ \A i \in 1..Len(state.steps) :
              /\ \A k \in StepFields : loaded.steps[i][k] = state.steps[i][k]
              /\ loaded.steps[i].shape = "BisectStep"

\* a state with steps of both shapes, a worktree path and a verdict has
\* gone through save and load
C6_Witness ==
    /\ pc = "loaded"
    /\ Len(state.steps) = MaxSteps
    /\ \E i, j \in 1..Len(state.steps) :
          state.steps[i].shape = "dict" /\ state.steps[j].shape = "BisectStep"
    /\ state.worktree_path # NoPath
    /\ state.found_bad_commit # None
    /\ state.current_commit # None

----------------------------------------------------------------------------
(* BisectRunner.run_test *)

\* what subprocess.run can do: return with a return code (negative when the
\* child was ended by a signal) or raise
ProcOutcomes ==
    {[outcome |-> "returned", returncode |-> c] : c \in (0 - MaxSignal)..255}
        \cup {[outcome |-> "raised", returncode |-> 0]}

\* a handler that leaves a failed launch with the exit code -1
ExitCodeOfUnset(p) == IF p.outcome = "raised" THEN 0 - 1 ELSE p.returncode

\* run_test: exit_code after the try/except
ExitCodeOf(p) == IF p.outcome = "raised" THEN ErrorCode ELSE p.returncode

\* a mapping that takes the error range to begin above 128
ResultAbove(exit_code) ==
    IF exit_code = 0 THEN "good"
    ELSE IF exit_code = SkipCode THEN "skip"
    ELSE IF exit_code > ErrorCode THEN "error"
    ELSE "bad"

\* run_test: result_str
ResultOf(exit_code) ==
    IF exit_code = 0 THEN "good"
    ELSE IF exit_code = SkipCode THEN "skip"
    ELSE IF exit_code >= ErrorCode THEN "error"
    ELSE "bad"

InitRunTest ==
    \E state_file \in BOOLEAN :
        /\ pc = "ready"
        /\ runner = FreshRunner(state_file)
        /\ state = InitialState(runner, NoState)
        /\ resume_state = NoState
        /\ file = Absent
        /\ fs = Files("exec")
        /\ git = GitIdle(N)
        /\ cmds = <<>>
        /\ invoked = <<>>
        /\ verdict = None
        /\ ret = <<>>
        /\ loaded = NoState
        /\ proc = NoProc
        /\ exc = "none"
        /\ valid = <<>>

\* run_test(commit, work_dir)
run_test ==
    /\ pc = "ready"
    /\ Len(state.steps) < MaxRunTests
    /\ \E c \in {0, N}, p \in ProcOutcomes :
          LET commit == Hash(c)
              work_dir == WorkDir(runner)
              exit_code == ExitCodeOf(p)
              step == BisectStep(commit, ResultOf(exit_code), exit_code, "t", 1)
          IN  /\ cmds' = cmds \o <<Cmd("get_commit_info", commit, None, RepoPath),
                                   Cmd("checkout", commit, None, work_dir)>>
              /\ git' = [git EXCEPT !.head = c]
              /\ invoked' = Append(invoked, commit)
              /\ proc' = p
              /\ state' = add_step(state, step)
              /\ file' = save_state(runner, state', file)
              /\ ret' = <<exit_code>>
    /\ UNCHANGED <<pc, runner, resume_state, fs, verdict, loaded, exc, valid>>

NextRunTest == run_test

SpecRunTest == InitRunTest /\ [][NextRunTest]_vars

LastStep == state.steps[Len(state.steps)]

\* C7: for every exit code c in 0..255 of the test script, run_test records
\* a step with result good if c = 0, skip if c = 125, error if c >= 128 and
\* bad otherwise, with exit_code c, and returns c; every recorded result is
\* one of good, bad, skip, error.
C7_ExitCodeMapping ==
    /\ \A i \in 1..Len(state.steps) : state.steps[i].result \in Results
    /\ (proc.outcome = "returned" /\ proc.returncode \in 0..255) =>
          LET c == proc.returncode
          IN  /\ LastStep.result =
                    IF c = 0 THEN "good"
                    ELSE IF c = 125 THEN "skip"
                    ELSE IF c >= 128 THEN "error"
                    ELSE "bad"
              /\ LastStep.exit_code = c
              /\ ret = <<c>>

\* run_test has recorded the exit code 128, the first of the error range,
\* and saved the step
C7_Witness ==
    /\ proc.outcome = "returned"
    /\ proc.returncode = 128
    /\ state.steps # <<>>
    /\ LastStep.result = "error"
    /\ runner.state_file
    /\ file = Json(SaveDoc(state))

\* C8: a return code of -1 is treated as 255 and recorded with result error.
C8_MinusOneIsError ==
    (proc.outcome = "returned" /\ proc.returncode = 0 - 1) =>
        /\ LastStep.result = "error"
        /\ LastStep.exit_code = 255

----------------------------------------------------------------------------
(* Properties of run(): validation, teardown, reporting, exit codes *)

\* validate was called and returned False
ValidationFailed == valid # <<>> /\ ~valid[1]

IsSessionStart(c) == c.cmd \in {"bisect_start", "bisect_start_no_checkout"}

\* C11: in a run whose validation failed no bisect start command has been
\* issued at any point, no worktree was created and the test script was
\* never invoked.
C11_NoSessionWhenInvalid ==
    ValidationFailed =>
        /\ SelectSeq(cmds, IsSessionStart) = <<>>
        /\ CmdIndex("worktree_add") = {}
        /\ ~fs.worktree
        /\ invoked = <<>>

\* C12: when run() returns after a failed validation, state.status is
\* aborted.
C12_InvalidEndsAborted ==
    (ValidationFailed /\ ret # <<>>) => state.status = "aborted"

\* the configuration is one that validate rejects
InvalidConfig == ~Validates(runner, fs)

\* a command that writes to the repository
IsMutation(c) ==
    c.cmd \in {"bisect_start", "bisect_start_no_checkout", "bisect_reset",
               "bisect_good", "bisect_bad", "bisect_run", "worktree_add",
               "worktree_remove", "checkout"}

\* C15: with an invalid configuration neither the construction of the
\* runner nor run() raises; run() returns 2, and no command that writes to
\* the repository has been issued by then.
C15_InvalidSurfacedAsExit2 ==
    InvalidConfig =>
        /\ pc # "raised"
        /\ pc = "done" => ret = <<2>>
        /\ ret = <<2>> => SelectSeq(cmds, IsMutation) = <<>>

\* run() has returned from a run that passed validation and was not dry
RanAndReturned ==
    /\ pc = "done"
    /\ valid = <<TRUE>>
    /\ ~runner.dry_run

Saved == runner.state_file => file = Json(SaveDoc(state))

\* the steps of the resumed state are still the first steps of the state
KeepsResumedSteps ==
    /\ Len(state.steps) >= Len(ResumedSteps)
    /\ SubSeq(state.steps, 1, Len(ResumedSteps)) = ResumedSteps

\* run_bisect returned and run() has recorded what it returned
HasReported ==
    /\ exc = "none"
    /\ valid = <<TRUE>>
    /\ ~runner.dry_run
    /\ pc \in {"print_result", "cleanup", "done"}

\* C18: once the search loop has ended, a verdict is in found_bad_commit
\* with status completed, no verdict gives status aborted, and either way
\* the state is saved (before the result is printed) with the final status
\* and every recorded step.
C18_ReportedAndSaved ==
    HasReported =>
        /\ verdict # None =>
              state.found_bad_commit = verdict /\ state.status = "completed"
        /\ verdict = None => state.status = "aborted"
        /\ Saved
        /\ KeepsResumedSteps
        /\ pc = "print_result" => verdict # None /\ ret = <<>>

\* the verdict of a resumed run with a state file has been saved and is
\* about to be printed
C18_Witness ==
    /\ HasReported
    /\ pc = "print_result"
    /\ runner.state_file
    /\ ResumedSteps # <<>>
    /\ file.data.status = "completed"
    /\ file.data.found_bad_commit = verdict

C20_ExitCodes ==
    /\ pc # "raised"
    /\ pc = "done" => ret # <<>>
    /\ ret # <<>> =>
          /\ ret[1] \in {0, 1, 2}
          /\ ret = <<0>> <=> verdict # None
          /\ ret = <<2>> <=> InvalidConfig

\* a command that changes the state of the working directory it runs in
IsStateChanging(c) ==
    c.cmd \in {"bisect_start", "bisect_start_no_checkout", "bisect_good",
               "bisect_bad", "bisect_run", "bisect_reset", "checkout"}

\* C21: with worktree isolation no state-changing command (bisect start,
\* good, bad, run, reset, checkout) is ever run against the primary
\* repository path; each one targets the worktree path.
C21_IsolationSparesRepository ==
    runner.use_worktree =>
        \A i \in 1..Len(cmds) :
            IsStateChanging(cmds[i]) =>
                cmds[i].cwd # RepoPath /\ cmds[i].cwd = WorktreePath

\* whether p is a prefix of q
IsPrefix(p, q) == Len(p) <= Len(q) /\ SubSeq(q, 1, Len(p)) = p

\* C22: every step of the run leaves the history as it was or appends to
\* it, an evaluation of a candidate appends exactly one step, for that
\* candidate, and the steps of a resumed state stay a prefix of the history.
C22_HistoryAppendOnly ==
    [][/\ IsPrefix(state.steps, state'.steps)
       /\ IsPrefix(ResumedSteps, state'.steps)
       /\ IF invoked' # invoked
          THEN /\ Len(state'.steps) = Len(state.steps) + 1
               /\ StepCommit(state'.steps[Len(state'.steps)]) =
                     invoked'[Len(invoked')]
          ELSE state'.steps = state.steps]_vars

\* a session was opened by bisect start in the working directory and a
\* later bisect reset has closed it
SessionClosed ==
    \E i \in CmdIndex("bisect_start") :
        \E j \in CmdIndex("bisect_reset") : j > i

\* C23: the phases come in the order validate, setup, session start, replay,
\* search loop, verdict parsing, report, teardown: no session command
\* precedes a successful validate, replay lies between session start and
\* the search loop, and the session is closed only after the report.
C23_PhaseOrder ==
    /\ SelectSeq(cmds, IsStateChanging) # <<>> => valid = <<TRUE>>
    /\ \A i \in 1..Len(cmds) :
          IsAssertion(cmds[i]) =>
              /\ \E j \in CmdIndex("bisect_start") : j < i
              /\ \A j \in CmdIndex("bisect_run") : i < j
    /\ \A i \in CmdIndex("bisect_log") : \A j \in CmdIndex("bisect_run") : j < i
    /\ SessionClosed =>
          /\ state.status # "in_progress"
          /\ Saved

----------------------------------------------------------------------------
(* BisectRunner.validate called on a constructed runner *)

\* a state a caller resumes from, for the bracket (g, N)
BlankState(g) ==
    BisectState(RepoPath, Branch, Hash(g), Hash(N), TestScript, "t0")

\* runners over every kind of repository path and test script; a fresh
\* runner exists only where rev-parse could run at construction
InitValidate ==
    \E use_worktree \in BOOLEAN, state_file \in BOOLEAN, g \in 0..(N + 1),
       repo \in RepoKinds, script \in ScriptKinds :
        \E resume \in (IF repo = "ok" THEN {NoState} ELSE {}) \cup {BlankState(g)} :
            ConstructedIn(Hash(g), Hash(N), use_worktree, state_file, FALSE,
                          resume, FilesIn(repo, script))

\* validate()
validate_call ==
    /\ pc = "created"
    /\ Len(valid) < MaxValidate
    /\ fs' = ChmodIfNeeded(fs)
    /\ valid' = Append(valid, Validates(runner, fs))
    /\ cmds' = cmds \o ValidateCmds(runner, fs)
    /\ UNCHANGED <<pc, runner, state, resume_state, file, git, invoked,
                   verdict, ret, loaded, proc, exc>>

NextValidate == validate_call

SpecValidate == InitValidate /\ [][NextValidate]_vars

\* C13: validate returns True exactly when repo_path is a directory holding
\* .git, the test script is an existing file, good is an ancestor of bad and
\* the number of commits between them is not zero; so it returns False when
\* good equals bad and when good is not an ancestor of bad.
C13_ValidateExactly ==
    \A i \in 1..Len(valid) :
        /\ valid[i] <=>
              /\ fs.repo = "ok"
              /\ fs.script # "missing"
              /\ Pos(runner.good_commit) <= Pos(runner.bad_commit)
              /\ Pos(runner.bad_commit) - Pos(runner.good_commit) # 0
        /\ runner.good_commit = runner.bad_commit => ~valid[i]
        /\ Pos(runner.good_commit) > Pos(runner.bad_commit) => ~valid[i]

\* validate has returned False for good equal to bad in a repository with
\* the test script in place
C13_Witness ==
    /\ Len(valid) = MaxValidate
    /\ ~valid[1]
    /\ runner.good_commit = runner.bad_commit
    /\ fs.repo = "ok"
    /\ fs.script # "missing"

\* the range of the runner is what makes validate fail
RangeInvalid ==
    /\ fs.repo = "ok"
    /\ fs.script # "missing"
    /\ \/ ~is_ancestor(runner.good_commit, runner.bad_commit)
       \/ count_commits_between(runner.good_commit, runner.bad_commit) = 0

\* C14: a validate call that fails because of the range changes neither the
\* files (the test script's permission bits included), nor the repository,
\* nor the BisectState, and a second call returns what the first returned.
C14_FailedValidateHasNoEffect ==
    [][(valid' # valid /\ RangeInvalid) =>
          /\ fs' = fs
          /\ git' = git
          /\ state' = state
          /\ \A i \in 1..Len(valid) : valid'[Len(valid')] = valid[i]]_vars

----------------------------------------------------------------------------
(* BisectRunner.cleanup_worktree called twice *)

InitCleanup ==
    \E use_worktree \in BOOLEAN, state_file \in BOOLEAN, g \in 0..(N - 1),
       script \in ScriptKinds :
        Constructed(Ref(g), Ref(N), use_worktree, state_file, FALSE, NoState,
                    script)

\* setup_worktree(), with git worktree add succeeding or failing
setup_worktree_call ==
    /\ pc = "created"
    /\ runner' = SetupRunner(runner)
    /\ cmds' = Append(cmds, Cmd("worktree_add", runner.bad_commit, None, RepoPath))
    /\ \E added \in BOOLEAN :
          /\ fs' = SetupFs(fs, added)
          /\ state' = IF added THEN [state EXCEPT !.worktree_path = WorktreePath]
                      ELSE state
          /\ exc' = IF added THEN exc ELSE "GitError"
    /\ pc' = "setup_done"
    /\ UNCHANGED <<resume_state, file, git, invoked, verdict, ret, loaded,
                   proc, valid>>

\* cleanup_worktree(), a first and a second time; an exception of the setup
\* has been handled by then
cleanup_worktree_call ==
    /\ pc \in {"created", "setup_done", "cleaned"}
    /\ cmds' = cmds \o CleanupCmds(runner, fs)
    /\ \E removed \in BOOLEAN :
          /\ fs' = CleanupFs(runner, fs, removed)
          /\ exc' = CleanupExc(runner, fs, removed)
    /\ pc' = IF pc = "cleaned" THEN "cleaned_again" ELSE "cleaned"
    /\ UNCHANGED <<runner, state, resume_state, file, git, invoked, verdict,
                   ret, loaded, proc, valid>>

NextCleanup == setup_worktree_call \/ cleanup_worktree_call

SpecCleanup == InitCleanup /\ [][NextCleanup]_vars

\* C17: cleanup_worktree, called once or a second time, with a worktree
\* that was created, never created, or that the tool failed to remove,
\* raises nothing and leaves neither worktree nor temporary directory.
C17_TeardownIdempotent ==
    pc \in {"cleaned", "cleaned_again"} =>
        /\ exc = "none"
        /\ ~fs.worktree
        /\ ~fs.temp_dir

\* cleanup_worktree has been called twice on a runner whose worktree was
\* created
C17_Witness ==
    /\ pc = "cleaned_again"
    /\ runner.temp_dir # NoPath
    /\ CmdIndex("worktree_remove") # {}
    /\ exc = "none"

----------------------------------------------------------------------------
(* run() end to end, with a test script that passes up to a commit *)

\* fresh runs over a valid range whose commits up to k pass the test
InitE2E ==
    \E use_worktree \in BOOLEAN, state_file \in BOOLEAN, g \in 0..(N - 1) :
        \E k \in g..(N - 1) :
            ConstructedIn(Ref(g), Ref(N), use_worktree, state_file, FALSE,
                          NoState,
                          [FilesIn("ok", "exec") EXCEPT !.passes_upto = k])

\* run() with no failure and no interrupt
NextE2E ==
    \/ print_config
    \/ print_estimate
    \/ validate
    \/ setup_worktree
    \/ bisect_start
    \/ bisect_run
    \/ wrapper_round
    \/ parse_verdict
    \/ run_bisect_finally
    \/ report
    \/ print_result
    \/ cleanup

SpecE2E == InitE2E /\ [][NextE2E]_vars

\* the least e with 2^e >= n
RECURSIVE CeilLog2(_)
CeilLog2(n) == IF n <= 1 THEN 0 ELSE 1 + CeilLog2((n + 1) \div 2)

\* C24: over a range of n commits after good, with a test script that
\* exits 0 on the first k of them and 1 on the rest, run() ends with status
\* completed, found_bad_commit the commit after the last passing one, and
\* at most ceil(log2(n)) + 1 invocations of the test script.
C24_EndToEnd ==
    pc = "done" =>
        /\ ret = <<0>>
        /\ state.status = "completed"
        /\ state.found_bad_commit = Hash(fs.passes_upto + 1)
        /\ Len(invoked) <= CeilLog2(Pos(runner.bad_commit)
                                     - Pos(runner.good_commit)) + 1

----------------------------------------------------------------------------
(* replay_bisect_trace over hand-made histories, in both orders *)

\* the replayed repositories have the commits 0..ReplayN on their branch
ReplayN == 4

\* steps over the commits strictly inside the bracket (g, ReplayN)
ReplayStepValues(g) ==
    {HistStep(shape, c, result) :
        shape \in Shapes, c \in (g + 1)..(ReplayN - 1), result \in Results}

\* the session bisect start opens for the bracket of state s
StartedSession(s, cwd) ==
    GitStart(GitIdle(Pos(s.bad_commit)), Pos(s.bad_commit),
             Pos(s.good_commit), cwd, "marker")

\* the tool accepts every assertion of the replay of h
ValidHistory(s, h) ==
    LET rc == ReplayCmds(h, RepoPath)
    IN  \A k \in 1..Len(rc) :
            GitApply(StartedSession(s, RepoPath), SubSeq(rc, 1, k),
                     "marker").status # "failed"

\* the saved state of a session over (g, ReplayN) with history h
ReplayState(g, h) ==
    [BlankState(g) EXCEPT !.bad_commit = Hash(ReplayN), !.steps = h]

\* resumed runs that have passed validation, over every valid history
InitReplay ==
    \E state_file \in BOOLEAN, g \in 0..(ReplayN - 2) :
        \E h \in SeqsUpTo(ReplayStepValues(g), MaxHist) :
            /\ ValidHistory(ReplayState(g, h), h)
            /\ pc = "start"
            /\ resume_state = ReplayState(g, h)
            /\ runner = BisectRunner(Hash(g), Hash(ReplayN), FALSE, state_file,
                                     FALSE, resume_state)
            /\ state = InitialState(runner, resume_state)
            /\ file = IF state_file THEN Json(SaveDoc(resume_state)) ELSE Absent
            /\ fs = Files("exec")
            /\ git = GitIdle(ReplayN)
            /\ cmds = <<>>
            /\ invoked = <<>>
            /\ verdict = None
            /\ ret = <<>>
            /\ loaded = NoState
            /\ proc = NoProc
            /\ exc = "none"
            /\ valid = <<TRUE>>

NextReplay == bisect_start \/ replay_bisect_trace

SpecReplay == InitReplay /\ [][NextReplay]_vars

Reverse(h) == [i \in 1..Len(h) |-> h[Len(h) + 1 - i]]

\* what the tool has narrowed the search to: the bounds, the skipped commits,
\* whether it is still searching, and the commit it has checked out
Narrowing(g) ==
    [lo |-> g.lo, hi |-> g.hi, skipped |-> g.skipped, status |-> g.status,
     head |-> g.head]

\* the assertions the replay of the history in the opposite order issues
ReversedCmds == ReplayCmds(Reverse(state.steps), WorkDir(runner))

\* the session the replay in the opposite order leaves
ReversedSession ==
    GitApply(StartedSession(state, WorkDir(runner)), ReversedCmds, "marker")

\* the history is [bad(c1), good(c2)] and is valid in both orders
IsBadGoodPair ==
    /\ Len(state.steps) = 2
    /\ StepResult(state.steps[1]) = "bad"
    /\ StepResult(state.steps[2]) = "good"
    /\ ValidHistory(state, Reverse(state.steps))

----------------------------------------------------------------------------
(* BisectState.load over well-formed and malformed documents *)

\* the keys load reads with data[...]
RequiredKeys ==
    {"repo_path", "branch", "good_commit", "bad_commit", "test_script"}

\* the keys load reads with data.get(...)
OptionalKeys ==
    {"worktree_path", "started_at", "steps", "current_commit",
     "found_bad_commit", "status"}

\* the value data.get(k, ...) gives for an optional key the document lacks
DefaultOf(k) ==
    CASE k = "started_at" -> ""
      [] k = "steps" -> <<>>
      [] k = "status" -> "in_progress"
      [] k = "worktree_path" -> NoPath
      [] OTHER -> None

\* the document with its missing optional keys read through data.get
Defaulted(data) ==
    [k \in DOMAIN data \cup OptionalKeys |->
        IF k \in DOMAIN data THEN data[k] ELSE DefaultOf(k)]

\* a JSON object without some of its keys, or with one more
Without(obj, keys) == [k \in DOMAIN obj \ keys |-> obj[k]]
WithKey(obj, key) ==
    [k \in DOMAIN obj \cup {key} |-> IF k = key THEN "x" ELSE obj[k]]

\* the keys of a step entry of a document
StepKeys(step) == DOMAIN step \ {"shape"}

\* the exception BisectState.load raises on the file, "none" if it returns
LoadExc(f) ==
    IF f.kind = "absent" THEN "FileNotFoundError"
    ELSE IF f.kind = "truncated" THEN "JSONDecodeError"
    ELSE IF ~(RequiredKeys \subseteq DOMAIN f.data) THEN "KeyError"
    ELSE IF \E i \in 1..Len(Defaulted(f.data).steps) :
                StepKeys(Defaulted(f.data).steps[i]) # StepFields
    THEN "TypeError"
    ELSE "none"

\* the states whose documents are damaged below
LoadStates ==
    {s \in CodecStates :
        /\ Len(s.steps) <= 1
        /\ s.started_at = "t0"
        /\ s.worktree_path = NoPath
        /\ s.current_commit = None}

\* the step entries of a document, each whole, short of a key or with one more
DamagedSteps(steps) ==
    {steps} \cup
    {[steps EXCEPT ![i] = Without(steps[i], {k})] :
        i \in 1..Len(steps), k \in StepFields} \cup
    {[steps EXCEPT ![i] = WithKey(steps[i], "note")] : i \in 1..Len(steps)}

\* the files load is given: none, a cut-off one, and documents that are whole,
\* lack one key, or hold a step entry with a missing or an unknown key
LoadFiles ==
    {Absent, Truncated} \cup
    {Json(Without([SaveDoc(s) EXCEPT !.steps = steps], keys)) :
        s \in LoadStates,
        steps \in UNION {DamagedSteps(SaveDoc(t).steps) : t \in LoadStates},
        keys \in {{}} \cup {{k} : k \in RequiredKeys \cup OptionalKeys}}

InitLoad ==
    /\ pc = "created"
    /\ runner = FreshRunner(TRUE)
    /\ state = NoState
    /\ resume_state = NoState
    /\ file \in LoadFiles
    /\ fs = Files("exec")
    /\ git = GitIdle(N)
    /\ cmds = <<>>
    /\ invoked = <<>>
    /\ verdict = None
    /\ ret = <<>>
    /\ loaded = NoState
    /\ proc = NoProc
    /\ exc = "none"
    /\ valid = <<>>

\* BisectState.load(path), called before a runner is constructed
load_call ==
    /\ pc = "created"
    /\ exc' = LoadExc(file)
    /\ loaded' = IF exc' = "none" THEN LoadDoc(Defaulted(file.data)) ELSE NoState
    /\ pc' = IF exc' = "none" THEN "loaded" ELSE "raised"
    /\ UNCHANGED <<runner, state, resume_state, file, fs, git, cmds, invoked,
                   verdict, ret, proc, valid>>

NextLoad == load_call

SpecLoad == InitLoad /\ [][NextLoad]_vars

\* invalid JSON, a missing required key, or a step entry with missing or
\* unknown keys
Malformed(f) ==
    \/ f.kind = "truncated"
    \/ /\ f.kind = "json"
       /\ \/ ~(RequiredKeys \subseteq DOMAIN f.data)
          \/ \E i \in 1..Len(Defaulted(f.data).steps) :
                StepKeys(Defaulted(f.data).steps[i]) # StepFields

\* C26: load of a malformed document fails with a CorruptStateError and
\* returns no state, before any search session is started.
C26_CorruptStateError ==
    (pc # "created" /\ Malformed(file)) =>
        /\ exc = "CorruptStateError"
        /\ loaded = NoState
        /\ ~git.open
        /\ cmds = <<>>

----------------------------------------------------------------------------
(* BisectState.get_total_duration: a float sum over the history *)

\* a float keeps FloatBits significant bits (53 in CPython); values count ticks
FloatBits == 3

\* the longest history summed
MaxDurSteps == 3

\* the spacing of the floats around n
RECURSIVE Ulp(_)
Ulp(n) == IF n < 2 ^ FloatBits THEN 1 ELSE 2 * Ulp(n \div 2)

\* the float nearest to n, ties to the even mantissa
Round(n) ==
    LET q == Ulp(n)
        m == n \div q
        r == n % q
    IN  IF 2 * r > q \/ (2 * r = q /\ m % 2 = 1) THEN (m + 1) * q ELSE m * q

\* float addition
FAdd(a, b) == Round(a + b)

\* what one step adds: its duration_seconds, 0 for a dict without the key
DurationOf(step) ==
    IF step.shape = "dict" /\ "duration_seconds" \notin DOMAIN step THEN 0
    ELSE step.duration_seconds

\* BisectState.get_total_duration: total = 0.0, then total += ... per step
RECURSIVE get_total_duration(_)
get_total_duration(steps) ==
    IF steps = <<>> THEN 0
    ELSE FAdd(get_total_duration(SubSeq(steps, 1, Len(steps) - 1)),
              DurationOf(steps[Len(steps)]))

\* steps of both shapes with durations that are floats
DurationSteps ==
    {[BisectStep(Hash(1), "good", 0, "t", d) EXCEPT !.shape = shape] :
        d \in {1, 2, 2 ^ FloatBits}, shape \in Shapes}
    \cup {Without(DictStep(Hash(1), "good", 0, "t", 1), {"duration_seconds"})}

InitDuration ==
    /\ pc = "created"
    /\ runner = FreshRunner(TRUE)
    /\ \E steps \in SeqsUpTo(DurationSteps, MaxDurSteps) :
          state = [BlankState(0) EXCEPT !.steps = steps]
    /\ resume_state = NoState
    /\ file = Absent
    /\ fs = Files("exec")
    /\ git = GitIdle(N)
    /\ cmds = <<>>
    /\ invoked = <<>>
    /\ verdict = None
    /\ ret = <<>>
    /\ loaded = NoState
    /\ proc = NoProc
    /\ exc = "none"
    /\ valid = <<>>

\* state.get_total_duration()
get_total_duration_call ==
    /\ pc = "created"
    /\ ret' = <<get_total_duration(state.steps)>>
    /\ pc' = "returned"
    /\ UNCHANGED <<runner, state, resume_state, file, fs, git, cmds, invoked,
                   verdict, loaded, proc, exc, valid>>

NextDuration == get_total_duration_call

SpecDuration == InitDuration /\ [][NextDuration]_vars

\* the history in another order
Reordered(steps, f) == [i \in 1..Len(steps) |-> steps[f[i]]]

\* the history with every step of the given shape
InShape(steps, shape) ==
    [i \in 1..Len(steps) |->
        IF "duration_seconds" \in DOMAIN steps[i]
        THEN [steps[i] EXCEPT !.shape = shape] ELSE steps[i]]

\* C27: get_total_duration returns the sum of the durations of the steps,
\* the same in every order of the steps and in either shape, and 0 for an
\* empty history.
C27_TotalDuration ==
    pc = "returned" =>
        /\ \A f \in Permutations(1..Len(state.steps)) :
              get_total_duration(Reordered(state.steps, f)) = ret[1]
        /\ \A shape \in Shapes :
              get_total_duration(InShape(state.steps, shape)) = ret[1]
        /\ state.steps = <<>> => ret[1] = 0

----------------------------------------------------------------------------
(* Git.run: the child process, check and the exception *)

\* what becomes of the git child process: it exits with a code (negative when
\* killed by a signal), or it cannot be started at all
RunOutcomes ==
    {[outcome |-> "exited", returncode |-> c] :
        c \in ((0 - MaxSignal)..2) \cup {ErrorCode, 255}}
        \cup {[outcome |-> "not_started", returncode |-> 0]}

\* the arguments of a call of Git.run
RunCalls ==
    {[check |-> check, capture_output |-> capture_output, cwd |-> cwd] :
        check \in BOOLEAN, capture_output \in BOOLEAN,
        cwd \in {NoPath, WorktreePath}}

\* subprocess.run(cmd, check=check)
SubprocessExc(check, p) ==
    IF p.outcome = "not_started" THEN "FileNotFoundError"
    ELSE IF check /\ p.returncode # 0 THEN "CalledProcessError"
    ELSE "none"

\* a wrapper that raises on every non-zero exit
GitRunExcAlways(check, p) ==
    IF p.outcome = "not_started" THEN "FileNotFoundError"
    ELSE IF p.returncode # 0 THEN "GitError"
    ELSE "none"

\* Git.run: CalledProcessError is caught and raised again as GitError
GitRunExc(check, p) ==
    IF SubprocessExc(check, p) = "CalledProcessError" THEN "GitError"
    ELSE SubprocessExc(check, p)

InitGitRun ==
    /\ pc = "created"
    /\ runner = FreshRunner(FALSE)
    /\ state = NoState
    /\ resume_state = NoState
    /\ file = Absent
    /\ fs = Files("exec")
    /\ git = GitIdle(N)
    /\ cmds = <<>>
    /\ \E call \in RunCalls : invoked = <<call>>
    /\ verdict = None
    /\ ret = <<>>
    /\ loaded = NoState
    /\ proc \in RunOutcomes
    /\ exc = "none"
    /\ valid = <<>>

\* git.run("status", capture_output=..., check=..., cwd=...)
git_run ==
    /\ pc = "created"
    /\ cmds' = <<Cmd("status", None, None,
                     IF invoked[1].cwd = NoPath THEN runner.repo_path
                     ELSE invoked[1].cwd)>>
    /\ exc' = GitRunExc(invoked[1].check, proc)
    /\ ret' = IF exc' = "none" THEN <<proc.returncode>> ELSE <<>>
    /\ pc' = IF exc' = "none" THEN "returned" ELSE "raised"
    /\ UNCHANGED <<runner, state, resume_state, file, fs, git, invoked,
                   verdict, loaded, proc, valid>>

NextGitRun == git_run

SpecGitRun == InitGitRun /\ [][NextGitRun]_vars

\* C28: Git.run raises GitError exactly when the command exits non-zero and
\* check is true; with check=False it returns the result with the non-zero
\* return code and does not raise.
C28_RaisesIffCheckedFailure ==
    pc # "created" =>
        /\ exc = "GitError" <=>
              /\ proc.outcome = "exited"
              /\ proc.returncode # 0
              /\ invoked[1].check
        /\ (proc.outcome = "exited" /\ ~invoked[1].check) =>
              /\ pc = "returned"
              /\ exc = "none"
              /\ ret = <<proc.returncode>>

\* a call with check=False has returned a non-zero return code
C28_Witness ==
    /\ pc = "returned"
    /\ ~invoked[1].check
    /\ ret # <<>>
    /\ ret[1] # 0

----------------------------------------------------------------------------
(* Git.is_ancestor: merge-base --is-ancestor with check=False *)

\* the queries made in a row
MaxQueries == 2

\* the commit exists in the repository
Known(c) == Pos(c) \in 0..N

\* the exit code of git merge-base --is-ancestor a b
MergeBaseCode(a, b) ==
    IF ~Known(a) \/ ~Known(b) THEN ErrorCode
    ELSE IF Pos(a) <= Pos(b) THEN 0
    ELSE 1

MergeBaseProc(a, b) == [outcome |-> "exited", returncode |-> MergeBaseCode(a, b)]

\* a query made with check left at its default
IsAncestorExcChecked(a, b) == GitRunExc(TRUE, MergeBaseProc(a, b))

\* Git.is_ancestor: the exception of its run(..., check=False)
IsAncestorExc(a, b) == GitRunExc(FALSE, MergeBaseProc(a, b))

\* Git.is_ancestor: result.returncode == 0
IsAncestorValue(a, b) == MergeBaseCode(a, b) = 0

InitAncestor ==
    /\ pc = "created"
    /\ runner = FreshRunner(FALSE)
    /\ state = NoState
    /\ resume_state = NoState
    /\ file = Absent
    /\ fs = Files("exec")
    /\ git = GitIdle(N)
    /\ cmds = <<>>
    /\ invoked = <<>>
    /\ verdict = None
    /\ ret = <<>>
    /\ loaded = NoState
    /\ proc = NoProc
    /\ exc = "none"
    /\ valid = <<>>

\* git.is_ancestor(a, b), for commits of the repository and unknown ones
is_ancestor_call ==
    /\ pc = "created"
    /\ Len(cmds) < MaxQueries
    /\ \E a \in 0..(N + 1), b \in 0..(N + 1) :
          /\ cmds' = Append(cmds, Cmd("merge_base_is_ancestor", Hash(a), Hash(b),
                                      runner.repo_path))
          /\ proc' = MergeBaseProc(Hash(a), Hash(b))
          /\ exc' = IsAncestorExc(Hash(a), Hash(b))
          /\ IF exc' = "none"
             THEN /\ valid' = Append(valid, IsAncestorValue(Hash(a), Hash(b)))
                  /\ pc' = pc
             ELSE /\ valid' = valid
                  /\ pc' = "raised"
    /\ UNCHANGED <<runner, state, resume_state, file, fs, git, invoked,
                   verdict, ret, loaded>>

NextAncestor == is_ancestor_call

SpecAncestor == InitAncestor /\ [][NextAncestor]_vars

\* C29: is_ancestor(a, b) returns True if and only if a is an ancestor of b
\* in the repository (a = b included), and returns False, without raising,
\* for every negative result.
C29_IsAncestor ==
    /\ exc = "none"
    /\ Len(valid) = Len(cmds)
    /\ \A i \in 1..Len(cmds) :
          valid[i] <=> /\ Known(cmds[i].a)
                       /\ Known(cmds[i].b)
                       /\ Pos(cmds[i].a) <= Pos(cmds[i].b)

\* True for a commit and itself, then False for an unknown commit
C29_Witness ==
    /\ Len(valid) = 2
    /\ cmds[1].a = cmds[1].b
    /\ valid[1]
    /\ ~Known(cmds[2].a)
    /\ ~valid[2]

----------------------------------------------------------------------------
(* Git.bisect_estimate: a dry session opened and closed *)

\* an estimate read from the tool's output
Some(n) == [kind |-> "int", pos |-> n]

\* the streams the tool's text can arrive on, and the two wordings of its
\* estimate, "roughly n steps" and "roughly n step"
Streams == {"stdout", "stderr"}
Wordings == {"steps", "step"}

\* what bisect start --no-checkout leaves: whether a session is open, and its
\* output, with the tool's estimate, without one, or empty after a failure
StartResults ==
    {[opened |-> TRUE, outcome |-> "roughly", returncode |-> 0, steps |-> n,
      stream |-> st, wording |-> w] :
        n \in 0..MaxSteps, st \in Streams, w \in Wordings}
    \cup {[opened |-> o, outcome |-> "other", returncode |-> c, steps |-> 0,
           stream |-> st, wording |-> "steps"] :
            o \in BOOLEAN, c \in {0, 1}, st \in Streams}
    \cup {[opened |-> o, outcome |-> "empty", returncode |-> c, steps |-> 0,
           stream |-> "stdout", wording |-> "steps"] :
            o \in BOOLEAN, c \in {1, ErrorCode}}

\* re.search(r"roughly (\d+) steps", start.stdout or "")
ParseEstimate(out) ==
    IF out.outcome = "roughly" /\ out.stream = "stdout" /\ out.wording = "steps"
    THEN Some(out.steps)
    ELSE None

\* git bisect start --no-checkout: the session without a checkout
GitStartNoCheckout(g, out, bad, good, cwd) ==
    IF out.opened
    THEN [g EXCEPT !.open = TRUE, !.cwd = cwd, !.lo = good, !.hi = bad,
                   !.status = "searching",
                   !.log = <<LogLine(FALSE, Hash(bad))>>]
    ELSE g

\* an estimate that resets only after a successful parse
EstimateCmdsOnSuccess(out, bad, good, cwd) ==
    IF ParseEstimate(out) # None
    THEN <<Cmd("bisect_start_no_checkout", bad, good, cwd),
           Cmd("bisect_reset", None, None, cwd)>>
    ELSE <<Cmd("bisect_start_no_checkout", bad, good, cwd)>>

\* the commands of bisect_estimate: the start, and the reset of its finally
EstimateCmds(out, bad, good, cwd) ==
    <<Cmd("bisect_start_no_checkout", bad, good, cwd),
      Cmd("bisect_reset", None, None, cwd)>>

\* the repository after the commands of bisect_estimate
EstimateGit(g, out, cs) ==
    LET started == GitStartNoCheckout(g, out, Pos(cs[1].a), Pos(cs[1].b),
                                      cs[1].cwd)
    IN  IF \E i \in 2..Len(cs) : cs[i].cmd = "bisect_reset"
        THEN GitReset(started)
        ELSE started

\* both commands run with check=False
EstimateExc(out) ==
    GitRunExc(FALSE, [outcome |-> "exited", returncode |-> out.returncode])

\* a repository with any commit checked out and no session open, and any two
\* commits, known or not, as the bracket
InitEstimate ==
    /\ pc = "created"
    /\ \E g \in 0..(N + 1), b \in 0..(N + 1) :
          runner = [FreshRunner(FALSE) EXCEPT !.good_commit = Hash(g),
                                              !.bad_commit = Hash(b)]
    /\ state = NoState
    /\ resume_state = NoState
    /\ file = Absent
    /\ fs = Files("exec")
    /\ \E h \in 0..N : git = GitIdle(h)
    /\ cmds = <<>>
    /\ invoked = <<>>
    /\ verdict = None
    /\ ret = <<>>
    /\ loaded = NoState
    /\ proc = NoProc
    /\ exc = "none"
    /\ valid = <<>>

\* git.bisect_estimate(bad, good)
bisect_estimate_call ==
    /\ pc = "created"
    /\ \E out \in StartResults :
          /\ cmds' = EstimateCmds(out, runner.bad_commit, runner.good_commit,
                                  runner.repo_path)
          /\ exc' = EstimateExc(out)
          /\ git' = EstimateGit(git, out, cmds')
          /\ proc' = out
          /\ ret' = <<ParseEstimate(out)>>
    /\ pc' = IF exc' = "none" THEN "returned" ELSE "raised"
    /\ UNCHANGED <<runner, state, resume_state, file, fs, invoked, verdict,
                   loaded, valid>>

NextEstimate == bisect_estimate_call

SpecEstimate == InitEstimate /\ [][NextEstimate]_vars

\* C30: called in a repository with no session open, bisect_estimate issues
\* a bisect reset after its dry bisect start whether the estimate was parsed,
\* could not be parsed or the start failed; it returns None when no estimate
\* can be parsed and never raises; after it no session is open and the same
\* commit is checked out as before.
C30_EstimateClosesSession ==
    pc # "created" =>
        /\ pc = "returned"
        /\ exc = "none"
        /\ Len(cmds) = 2
        /\ cmds[1].cmd = "bisect_start_no_checkout"
        /\ cmds[2].cmd = "bisect_reset"
        /\ cmds[2].cwd = cmds[1].cwd
        /\ proc.outcome # "roughly" => ret = <<None>>
        /\ ret # <<None>> => ret = <<Some(proc.steps)>>
        /\ ~git.open
        /\ git.status = "idle"
        /\ git.head = git.orig_head

\* the start failed leaving a session behind, and nothing could be parsed
C30_Witness ==
    /\ pc = "returned"
    /\ proc.outcome = "empty"
    /\ proc.returncode # 0
    /\ ret = <<None>>
    /\ Len(cmds) = 2

\* C31: bisect_estimate returns n whenever the output of the dry bisect
\* start contains the tool's estimate 'roughly n step(s)', on stdout or on
\* stderr, reading 'steps' or 'step'.
C31_EstimateParsed ==
    (pc = "returned" /\ proc.outcome = "roughly") => ret = <<Some(proc.steps)>>

----------------------------------------------------------------------------
(* a call of BisectRunner.estimate_steps *)

\* the methods class BisectRunner defines
RunnerMethods ==
    {"__init__", "print_banner", "print_config", "print_estimate", "validate",
     "setup_worktree", "cleanup_worktree", "save_state", "run_test",
     "replay_bisect_trace", "run_bisect", "_create_wrapper_script",
     "print_result", "print_ancestry", "run"}

\* getattr(runner, name): AttributeError for a name the class does not define
GetAttrExc(name) == IF name \in RunnerMethods THEN "none" ELSE "AttributeError"

\* runner.estimate_steps()
estimate_steps_call ==
    /\ pc = "created"
    /\ exc' = GetAttrExc("estimate_steps")
    /\ pc' = IF exc' = "none" THEN "returned" ELSE "raised"
    /\ cmds' = cmds
    /\ ret' = ret
    /\ UNCHANGED <<runner, state, resume_state, file, fs, git, invoked,
                   verdict, loaded, proc, valid>>

NextEstimateSteps == estimate_steps_call

SpecEstimateSteps == InitEstimate /\ [][NextEstimateSteps]_vars

RECURSIVE FloorLog2(_)
FloorLog2(n) == IF n <= 1 THEN 0 ELSE 1 + FloorLog2(n \div 2)

\* C32: estimate_steps() returns floor(log2(n)) + 1 for the n commits
\* between good and bad, and never less than 1.
C32_EstimateSteps ==
    pc # "created" =>
        /\ exc = "none"
        /\ ret = <<FloorLog2(count_commits_between(runner.good_commit,
                                                   runner.bad_commit)) + 1>>
        /\ ret[1] >= 1

----------------------------------------------------------------------------
(* cli.main: the arguments, and the runner it constructs *)

\* the options create_parser defines (those the model draws from)
KnownOptions ==
    {"--good", "--test", "--bad", "--worktree", "--state-file", "--dry-run",
     "--list-templates", "--generate-template"}

\* the options a command line may carry
ArgvOptions == KnownOptions \cup {"--resume-from"}

\* parse_args and the checks of main: the exit status of a SystemExit or an
\* early return, <<>> when main goes on to construct the runner
MainExit(argv) ==
    IF ~(argv \subseteq KnownOptions) THEN <<2>>
    ELSE IF "--list-templates" \in argv THEN <<0>>
    ELSE IF "--generate-template" \in argv THEN <<0>>
    ELSE IF "--good" \notin argv \/ "--test" \notin argv THEN <<2>>
    ELSE <<>>

\* parser.error raises SystemExit; the template branches return
MainExc(argv) ==
    IF ~(argv \subseteq KnownOptions) THEN "SystemExit"
    ELSE IF "--list-templates" \in argv \/ "--generate-template" \in argv
    THEN "none"
    ELSE IF "--good" \notin argv \/ "--test" \notin argv THEN "SystemExit"
    ELSE "none"

\* a state file of an interrupted run lies at the path the user names
InitCli ==
    /\ pc = "created"
    /\ runner = NoState
    /\ state = NoState
    /\ resume_state = NoState
    /\ \E s \in SavedStates(0) : file = Json(SaveDoc(s))
    /\ fs = Files("exec")
    /\ git = GitIdle(N)
    /\ cmds = <<>>
    /\ \E argv \in SUBSET ArgvOptions : invoked = <<argv>>
    /\ verdict = None
    /\ ret = <<>>
    /\ loaded = NoState
    /\ proc = NoProc
    /\ exc = "none"
    /\ valid = <<>>

\* main(argv), up to the call of runner.run()
cli_main ==
    /\ pc = "created"
    /\ exc' = MainExc(invoked[1])
    /\ ret' = MainExit(invoked[1])
    /\ IF ret' = <<>>
       THEN /\ runner' = BisectRunner(Ref(0),
                                      IF "--bad" \in invoked[1] THEN Ref(N - 1)
                                      ELSE Ref(N),
                                      "--worktree" \in invoked[1],
                                      "--state-file" \in invoked[1],
                                      "--dry-run" \in invoked[1], NoState)
            /\ state' = InitialState(runner', NoState)
            /\ cmds' = InitCmds(Ref(0),
                                IF "--bad" \in invoked[1] THEN Ref(N - 1)
                                ELSE Ref(N), NoState)
            /\ pc' = "constructed"
       ELSE /\ UNCHANGED <<runner, state, cmds>>
            /\ pc' = IF exc' = "none" THEN "done" ELSE "raised"
    /\ UNCHANGED <<resume_state, file, fs, git, invoked, verdict, loaded,
                   proc, valid>>

NextCli == cli_main

SpecCli == InitCli /\ [][NextCli]_vars

\* the command line is --resume-from FILE, without --good and --test
ResumeCommand ==
    /\ "--resume-from" \in invoked[1]
    /\ invoked[1] \cap {"--good", "--test", "--list-templates",
                        "--generate-template"} = {}

\* C33: given --resume-from FILE without --good and --test, main loads the
\* state from FILE and constructs the runner with the state's good_commit,
\* bad_commit and repo_path, passing the loaded state as resume_state.
C33_ResumeFrom ==
    (pc # "created" /\ ResumeCommand) =>
        /\ pc = "constructed"
        /\ exc = "none"
        /\ loaded = LoadDoc(file.data)
        /\ runner.resuming
        /\ runner.good_commit = loaded.good_commit
        /\ runner.bad_commit = loaded.bad_commit
        /\ runner.repo_path = loaded.repo_path
        /\ state = loaded

----------------------------------------------------------------------------
(* Further properties of run() *)

\* the state file as it was when the runner was constructed
FileAtConstruction ==
    IF runner.resuming /\ runner.state_file THEN Json(SaveDoc(resume_state))
    ELSE Absent

\* a dry run whose validation passed has returned
DryRunReturned ==
    /\ runner.dry_run
    /\ valid = <<TRUE>>
    /\ pc = "done"

\* C34: in dry-run mode, after validation passes, run() returns 0 having
\* created no worktree, started no real search session and never invoked the
\* test script; the state's steps, status and verdict are as at construction
\* and no state file has been written.
C34_DryRunDoesNothing ==
    DryRunReturned =>
        /\ ret = <<0>>
        /\ CmdIndex("worktree_add") = {}
        /\ ~fs.worktree
        /\ CmdIndex("bisect_start") = {}
        /\ CmdIndex("bisect_run") = {}
        /\ ~git.open
        /\ invoked = <<>>
        /\ state = InitialState(runner, resume_state)
        /\ file = FileAtConstruction

\* a dry run that asked for a worktree and a state file, over a saved history
C34_Witness ==
    /\ DryRunReturned
    /\ runner.use_worktree
    /\ runner.state_file
    /\ runner.resuming
    /\ state.steps # <<>>

----------------------------------------------------------------------------
(* run_bisect: the verdict parsed from any transcript *)

\* the longest transcript parsed
MaxLogLines == 3

\* lines with and without the marker, with and without an identifier
TranscriptLines ==
    {LogLine(marker, hash) :
        marker \in BOOLEAN, hash \in {None, Hash(1), Hash(2)}}

\* the search loop has ended with any exit status and left any transcript
InitParse ==
    \E use_worktree \in BOOLEAN :
        /\ pc = "log"
        /\ runner = [BisectRunner(Hash(0), Hash(N), use_worktree, FALSE, FALSE,
                                  NoState)
                        EXCEPT !.temp_dir = IF use_worktree THEN TempDir ELSE @,
                               !.worktree_path =
                                    IF use_worktree THEN WorktreePath ELSE @]
        /\ state = InitialState(runner, NoState)
        /\ resume_state = NoState
        /\ file = Absent
        /\ fs = Files("exec")
        /\ \E log \in SeqsUpTo(TranscriptLines, MaxLogLines), h \in 1..(N - 1) :
              git = [GitStart(GitIdle(N), N, 0, WorkDir(runner), "comment")
                        EXCEPT !.log = log, !.head = h]
        /\ cmds = <<>>
        /\ invoked = <<>>
        /\ verdict = None
        /\ ret = <<>>
        /\ loaded = NoState
        /\ \E c \in {0, 1, ErrorCode} :
              proc = [outcome |-> "exited", returncode |-> c]
        /\ exc = "none"
        /\ valid = <<TRUE>>

NextParse == parse_verdict

SpecParse == InitParse /\ [][NextParse]_vars

\* line i holds the marker and carries an identifier
IsVerdictLine(i) == git.log[i].marker /\ git.log[i].hash # None

\* C35: when the transcript has lines with the marker 'is the first bad
\* commit', run_bisect returns the identifier of the first such line that
\* carries one, whatever the exit status of the search loop was.
C35_FirstMarkerLine ==
    pc = "finally" =>
        \A i \in 1..Len(git.log) :
            (IsVerdictLine(i) /\ \A j \in 1..(i - 1) : ~IsVerdictLine(j)) =>
                verdict = git.log[i].hash

\* a marker line without an identifier came first, the search loop failed,
\* and the identifier of the later marker line was returned
C35_Witness ==
    /\ pc = "finally"
    /\ proc.returncode # 0
    /\ Len(git.log) = 3
    /\ git.log[1].marker /\ git.log[1].hash = None
    /\ IsVerdictLine(2) /\ IsVerdictLine(3)
    /\ git.log[2].hash # git.log[3].hash
    /\ verdict = git.log[2].hash

\* C36: for each candidate the search tool selects, the wrapper invokes the
\* test script with the identifier of the commit checked out and the working
\* directory of the run, and the judgement the tool gets is the script's exit
\* code unchanged.
C36_WrapperPassesThrough ==
    [][invoked' # invoked =>
          /\ invoked' = Append(invoked, Hash(git.head))
          /\ proc'.commit = Hash(git.head)
          /\ proc'.work_dir = (IF runner.use_worktree THEN WorktreePath
                               ELSE RepoPath)
          /\ \E fmt \in LogFormats :
                git' = GitRunStep(git, proc'.returncode, fmt)]_vars

\* in a worktree, the script exited with the skip code and the tool skipped
\* the commit
C36_Witness ==
    /\ invoked # <<>>
    /\ runner.use_worktree
    /\ proc.outcome = "exited"
    /\ proc.returncode = SkipCode
    /\ proc.work_dir = WorktreePath
    /\ Pos(proc.commit) \in git.skipped

\* C37: if the test script cannot be launched, run_test does not raise: it
\* records exactly one step for the commit, with exit_code 128 and result
\* error, saves the state, and returns 128.
C37_LaunchFailureRecorded ==
    (proc.outcome = "raised") =>
        /\ exc = "none"
        /\ Len(state.steps) = Len(invoked)
        /\ StepCommit(LastStep) = invoked[Len(invoked)]
        /\ LastStep.exit_code = 128
        /\ LastStep.result = "error"
        /\ runner.state_file => file = Json(SaveDoc(state))
        /\ ret = <<128>>

\* a launch failed and the step is in the state file
C37_Witness ==
    /\ proc.outcome = "raised"
    /\ Len(state.steps) = 1
    /\ runner.state_file
    /\ file # Absent
    /\ file.data.steps[1].result = "error"

\* a state carries a verdict exactly when its status is completed
VerdictIffCompleted(s) == (s.found_bad_commit # None) <=> (s.status = "completed")

\* C38: in every reachable state of a run, fresh or constructed from a
\* previously saved state, found_bad_commit is set if and only if status is
\* completed, in memory and in the saved file.
C38_VerdictIffCompleted ==
    /\ VerdictIffCompleted(state)
    /\ file.kind = "json" => VerdictIffCompleted(file.data)

\* C39: once status has been set to completed and saved, no later step of
\* the same run changes status or found_bad_commit, and run() returns 0.
C39_CompletedIsAbsorbing ==
    [][(state.status = "completed" /\ Saved) =>
          /\ state'.status = "completed"
          /\ state'.found_bad_commit = state.found_bad_commit
          /\ pc' = "done" => ret' = <<0>>]_vars

----------------------------------------------------------------------------
(* two runs at the same time: the wrapper script of each *)

Runs == {"A", "B"}

\* the rounds of each run's search loop
MaxRounds == 2

\* each run has its own repository and its own test script
RepoOf(r) == IF r = "A" THEN "/repoA" ELSE "/repoB"
ScriptOf(r) == IF r = "A" THEN "/testA.sh" ELSE "/testB.sh"

\* tempfile.mkdtemp gives each run that uses a worktree a directory of its own
TempDirOf(r) == IF r = "A" THEN "/tmp/git-bisect-a" ELSE "/tmp/git-bisect-b"

\* setup_worktree: os.path.join(temp_dir, "worktree")
WorktreeOf(r) ==
    IF r = "A" THEN "/tmp/git-bisect-a/worktree" ELSE "/tmp/git-bisect-b/worktree"

\* the runner of run r, after setup_worktree if it uses a worktree
RunnerOf(r, use_worktree) ==
    [BisectRunner(Hash(0), Hash(N), use_worktree, FALSE, FALSE, NoState)
        EXCEPT !.repo_path = RepoOf(r),
               !.temp_dir = IF use_worktree THEN TempDirOf(r) ELSE NoPath,
               !.worktree_path = IF use_worktree THEN WorktreeOf(r) ELSE NoPath]

\* _create_wrapper_script: os.path.join(temp_dir or gettempdir(), name)
WrapperPathOf(rn) ==
    <<IF rn.temp_dir # NoPath THEN rn.temp_dir ELSE "/tmp", "bisect_wrapper.sh">>

\* _create_wrapper_script: the test script and working directory it names
WrapperContent(rn, s) ==
    [exists |-> TRUE, test_script |-> s.test_script, work_dir |-> WorkDir(rn)]

NoWrapper == [exists |-> FALSE, test_script |-> "", work_dir |-> ""]

InitTwoRuns ==
    /\ pc = [r \in Runs |-> "created"]
    /\ \E w \in [Runs -> BOOLEAN] :
          runner = [r \in Runs |-> RunnerOf(r, w[r])]
    /\ state = [r \in Runs |->
                   BisectState(RepoOf(r), Branch, Hash(0), Hash(N), ScriptOf(r),
                               "t0")]
    /\ resume_state = NoState
    /\ file = Absent
    /\ fs = [p \in {WrapperPathOf(runner[r]) : r \in Runs} |-> NoWrapper]
    /\ git = GitIdle(N)
    /\ cmds = <<>>
    /\ invoked = <<>>
    /\ verdict = None
    /\ ret = <<>>
    /\ loaded = NoState
    /\ proc = NoProc
    /\ exc = "none"
    /\ valid = <<>>

\* run_bisect of run r: the wrapper is written
create_wrapper(r) ==
    /\ pc[r] = "created"
    /\ fs' = [fs EXCEPT ![WrapperPathOf(runner[r])] =
                            WrapperContent(runner[r], state[r])]
    /\ pc' = [pc EXCEPT ![r] = "run"]
    /\ UNCHANGED <<runner, state, resume_state, file, git, cmds, invoked,
                   verdict, ret, loaded, proc, exc, valid>>

\* one round of run r's git bisect run: it executes the file at the wrapper
\* path as it is now, and fails if there is none
wrapper_exec(r) ==
    /\ pc[r] = "run"
    /\ Len(SelectSeq(invoked, LAMBDA x : x.run = r)) < MaxRounds
    /\ invoked' = Append(invoked,
                         [run |-> r, wrapper |-> fs[WrapperPathOf(runner[r])]])
    /\ UNCHANGED <<pc, runner, state, resume_state, file, fs, git, cmds,
                   verdict, ret, loaded, proc, exc, valid>>

\* run_bisect of run r: finally, the wrapper is removed if it exists
remove_wrapper(r) ==
    /\ pc[r] = "run"
    /\ fs' = [fs EXCEPT ![WrapperPathOf(runner[r])] = NoWrapper]
    /\ pc' = [pc EXCEPT ![r] = "done"]
    /\ UNCHANGED <<runner, state, resume_state, file, git, cmds, invoked,
                   verdict, ret, loaded, proc, exc, valid>>

NextTwoRuns ==
    \E r \in Runs : create_wrapper(r) \/ wrapper_exec(r) \/ remove_wrapper(r)

SpecTwoRuns == InitTwoRuns /\ [][NextTwoRuns]_vars

\* C40: two runs at the same time without worktree isolation do not
\* interfere through the wrapper script: each run's search loop always
\* executes a wrapper that calls that run's own test script with that run's
\* own working directory, and no run's teardown removes a wrapper file the
\* other run is still using.
C40_WrappersDoNotInterfere ==
    (\A r \in Runs : ~runner[r].use_worktree) =>
        /\ \A i \in 1..Len(invoked) :
              /\ invoked[i].wrapper.exists
              /\ invoked[i].wrapper.test_script = ScriptOf(invoked[i].run)
              /\ invoked[i].wrapper.work_dir = RepoOf(invoked[i].run)
        /\ \A r \in Runs :
              pc[r] = "run" => fs[WrapperPathOf(runner[r])].exists

====
